---- MODULE Spec2Model ----
(***************************************************************************)
(* Capital rotation allocation engine (engine.py), the runtime state it    *)
(* mutates (runtime_state.py) and the policy store it reads                 *)
(* (config_manager.py).                                                     *)
(*                                                                          *)
(* Numbers.  Python floats are modelled as exact rationals <<n, d>> in      *)
(* lowest terms with d > 0; Python's None is the pair <<0, 0>>.  Rounding   *)
(* of the floating point unit is not modelled; the engine's tolerances      *)
(* (1e-6, 1e-9) are kept as the exact rationals they denote.                *)
(***************************************************************************)
EXTENDS Integers, Sequences, FiniteSets, TLC

-----------------------------------------------------------------------------
(* Rational arithmetic *)

None == <<0, 0>>

Abs(x) == IF x < 0 THEN -x ELSE x

RECURSIVE GCD(_, _)
GCD(a, b) == IF b = 0 THEN a ELSE GCD(b, a % b)

Rat(n, d) ==
    LET g == GCD(Abs(n), Abs(d))
        s == IF d < 0 THEN -1 ELSE 1
    IN  <<s * (Abs(n) \div g) * (IF n < 0 THEN -1 ELSE 1), Abs(d) \div g>>

R(n) == <<n, 1>>
Zero == <<0, 1>>
One == <<1, 1>>

RNeg(a) == <<-a[1], a[2]>>

RAdd(a, b) ==
    LET g == GCD(a[2], b[2])
    IN  Rat(a[1] * (b[2] \div g) + b[1] * (a[2] \div g), (a[2] \div g) * b[2])

RSub(a, b) == RAdd(a, RNeg(b))

RMul(a, b) ==
    LET g1 == GCD(Abs(a[1]), b[2])
        g2 == GCD(Abs(b[1]), a[2])
    IN  Rat((a[1] \div g1) * (b[1] \div g2), (a[2] \div g2) * (b[2] \div g1))

RInv(a) == IF a[1] > 0 THEN <<a[2], a[1]>> ELSE <<-a[2], -a[1]>>

RDiv(a, b) == RMul(a, RInv(b))

(* Comparison by continued-fraction expansion: never multiplies, so it   *)
(* cannot leave the range of the checker's integers.                      *)
RECURSIVE CmpPos(_, _, _, _)
CmpPos(n1, d1, n2, d2) ==
    LET q1 == n1 \div d1
        q2 == n2 \div d2
        r1 == n1 % d1
        r2 == n2 % d2
    IN  IF q1 # q2 THEN (IF q1 < q2 THEN -1 ELSE 1)
        ELSE IF r1 = 0 /\ r2 = 0 THEN 0
        ELSE IF r1 = 0 THEN -1
        ELSE IF r2 = 0 THEN 1
        ELSE CmpPos(d2, r2, d1, r1)

RCmp(a, b) ==
    IF a[1] < 0 /\ b[1] >= 0 THEN -1
    ELSE IF a[1] >= 0 /\ b[1] < 0 THEN 1
    ELSE IF a[1] >= 0 THEN CmpPos(a[1], a[2], b[1], b[2])
    ELSE CmpPos(-b[1], b[2], -a[1], a[2])

RLt(a, b) == RCmp(a, b) < 0
RLe(a, b) == RCmp(a, b) <= 0
RGt(a, b) == RCmp(a, b) > 0
RGe(a, b) == RCmp(a, b) >= 0
RMin(a, b) == IF RLt(b, a) THEN b ELSE a
RMax(a, b) == IF RGt(b, a) THEN b ELSE a

(* Python truthiness of an Optional[float]: None and 0.0 are falsy. *)
Truthy(x) == x # None /\ x[1] # 0

(* `x or y` on Optional[float] *)
OrElse(x, y) == IF Truthy(x) THEN x ELSE y

(* A local variable: value is computed once and named inside Body. *)
Bind(value, Body(_)) == Body(value)

-----------------------------------------------------------------------------
(* Tolerances and fixed factors of the engine *)

EpsCash == <<1, 1000000>>
EpsShares == <<1, 1000000000>>
PayoutFactor == <<49, 50>>
BpsScale == <<10000, 1>>

-----------------------------------------------------------------------------
(* Score model *)

(* math.log1p, as the piecewise-linear interpolation of ln(x), x = 1 + r, *)
(* through the knots below (ln 2 taken as 7/10); strictly increasing.     *)
LnKnots ==
    << << <<1, 50>>, <<-39, 10>> >>, << <<1, 2>>, <<-7, 10>> >>, << <<1, 1>>, <<0, 1>> >>,
       << <<2, 1>>, <<7, 10>> >>, << <<4, 1>>, <<7, 5>> >>, << <<8, 1>>, <<21, 10>> >>,
       << <<16, 1>>, <<14, 5>> >>, << <<64, 1>>, <<21, 5>> >> >>

RECURSIVE LnSegment(_, _)
LnSegment(x, i) ==
    IF i >= Len(LnKnots) - 1 \/ RLe(x, LnKnots[i + 1][1]) THEN i ELSE LnSegment(x, i + 1)

LnOnSegment(x, lo, hi) ==
    RAdd(lo[2], RMul(RSub(x, lo[1]), RDiv(RSub(hi[2], lo[2]), RSub(hi[1], lo[1]))))

ln1p(value) ==
    Bind(RAdd(One, value), LAMBDA x :
    Bind(LnSegment(x, 1), LAMBDA i : LnOnSegment(x, LnKnots[i], LnKnots[i + 1])))

compute_g(price, resolution_days, lambda_days) ==
    IF price = None \/ RLe(price, Zero) \/ RLe(RAdd(resolution_days, lambda_days), Zero)
    THEN None
    ELSE RDiv(ln1p(RMul(PayoutFactor, RDiv(RSub(One, price), price))),
              RAdd(resolution_days, lambda_days))

-----------------------------------------------------------------------------
(* Execution simulator *)

(* a level taken whole, whatever is left of the target *)
MutTakeValue(level_value, remaining_value) == level_value

(* Notional taken from one ask level. *)
TakeValue(level_value, remaining_value) == RMin(level_value, remaining_value)

(* One pass of the loop body of compute_fill_from_asks over level i.       *)
(* acc = [cost, shares, remaining, takes, done]                            *)
RECURSIVE AskWalk(_, _, _)
AskWalk(asks, i, acc) ==
    IF i > Len(asks) \/ acc.done THEN acc
    ELSE LET price == asks[i][1]
             size == asks[i][2]
         IN  IF RLe(price, Zero) \/ RLe(size, Zero)
             THEN AskWalk(asks, i + 1, [acc EXCEPT !.takes = Append(@, Zero)])
             ELSE Bind(TakeValue(RMul(price, size), acc.remaining), LAMBDA take_value :
                  IF RLe(take_value, Zero)
                  THEN [acc EXCEPT !.done = TRUE]
                  ELSE LET shares == RDiv(take_value, price)
                           remaining_value == RSub(acc.remaining, take_value)
                       IN  AskWalk(asks, i + 1,
                               [cost |-> RAdd(acc.cost, RMul(price, shares)),
                                shares |-> RAdd(acc.shares, shares),
                                remaining |-> remaining_value,
                                takes |-> Append(acc.takes, shares),
                                done |-> RLe(remaining_value, EpsShares)]))

ZeroFill == [shares |-> Zero, avg_price |-> Zero, slippage_bps |-> Zero, takes |-> <<>>]

compute_fill_from_asks(asks, max_value) ==
    IF asks = <<>> \/ RLe(max_value, Zero) THEN ZeroFill
    ELSE Bind(AskWalk(asks, 1,
                  [cost |-> Zero, shares |-> Zero, remaining |-> max_value,
                   takes |-> <<>>, done |-> FALSE]), LAMBDA w :
         IF RLe(w.shares, Zero) THEN ZeroFill
         ELSE LET best_price == asks[1][1]
                  avg_price == RDiv(w.cost, w.shares)
              IN  [shares |-> w.shares,
                   avg_price |-> avg_price,
                   slippage_bps |->
                       IF best_price[1] # 0
                       THEN RMul(RSub(RDiv(avg_price, best_price), One), BpsScale)
                       ELSE Zero,
                   takes |-> w.takes])

RECURSIVE BidWalk(_, _, _)
BidWalk(bids, i, acc) ==
    IF i > Len(bids) \/ acc.done THEN acc
    ELSE LET price == bids[i][1]
             size == bids[i][2]
         IN  IF RLe(price, Zero) \/ RLe(size, Zero)
             THEN BidWalk(bids, i + 1, acc)
             ELSE Bind(RMin(size, acc.remaining), LAMBDA sell_shares :
                  LET remaining == RSub(acc.remaining, sell_shares)
                  IN  BidWalk(bids, i + 1,
                          [proceeds |-> RAdd(acc.proceeds, RMul(price, sell_shares)),
                           shares |-> RAdd(acc.shares, sell_shares),
                           remaining |-> remaining,
                           done |-> RLe(remaining, EpsShares)]))

compute_fill_from_bids(bids, shares_to_sell) ==
    IF bids = <<>> \/ RLe(shares_to_sell, Zero) THEN ZeroFill
    ELSE Bind(BidWalk(bids, 1,
                  [proceeds |-> Zero, shares |-> Zero, remaining |-> shares_to_sell,
                   done |-> FALSE]), LAMBDA w :
         IF RLe(w.shares, Zero) THEN ZeroFill
         ELSE LET best_price == bids[1][1]
                  avg_price == RDiv(w.proceeds, w.shares)
              IN  [shares |-> w.shares,
                   avg_price |-> avg_price,
                   slippage_bps |->
                       IF best_price[1] # 0
                       THEN RMul(RDiv(RSub(best_price, avg_price), best_price), BpsScale)
                       ELSE Zero,
                   takes |-> <<>>])

-----------------------------------------------------------------------------
(* Policy store (config_manager.py) *)

GlobalPolicy ==
    [settlement_lambda_days |-> One,
     delta_threshold |-> Rat(1, 5000),
     min_g |-> Rat(1, 1250),
     cash_reserve_pct |-> Rat(7, 100),
     max_parent_allocation_pct |-> Rat(1, 5),
     max_month_allocation_pct |-> Rat(7, 20),
     slippage_cap_bps |-> R(40),
     exit_slippage_cap_bps |-> R(40)]

MarketPolicy ==
    [enabled |-> TRUE,
     auto_buy |-> FALSE,
     auto_sell |-> TRUE,
     max_allocation_pct |-> Rat(1, 5),
     max_notional |-> R(15000),
     per_pass_buy_cap |-> R(3000),
     min_price |-> Rat(1, 50),
     max_price |-> Rat(9, 10),
     min_days |-> One,
     max_days |-> R(120),
     min_g |-> Rat(1, 1250),
     slippage_cap_bps |-> R(40),
     exit_slippage_cap_bps |-> None,
     priority |-> 3,
     whitelist_autobuy |-> FALSE,
     max_per_event_pct |-> None,
     max_per_month_pct |-> None]

effective_slippage_cap(policy, global_policy) ==
    IF policy.slippage_cap_bps # None THEN policy.slippage_cap_bps
    ELSE global_policy.slippage_cap_bps

effective_exit_slippage_cap(policy, global_policy) ==
    IF policy.exit_slippage_cap_bps # None THEN policy.exit_slippage_cap_bps
    ELSE global_policy.exit_slippage_cap_bps

(* cfg = [global_policy, market_policies]; market_policies maps market ids *)
(* (and possibly "default") to policies.                                   *)
get_market_policy(cfg, market_id) ==
    IF market_id \in DOMAIN cfg.market_policies THEN cfg.market_policies[market_id]
    ELSE IF "default" \in DOMAIN cfg.market_policies THEN cfg.market_policies["default"]
    ELSE MarketPolicy

-----------------------------------------------------------------------------
(* Market state (runtime_state.py) *)

NewMarket(key, event, month) ==
    [key |-> key,
     parent_event_id |-> event,
     month |-> month,
     resolution_days |-> Zero,
     best_ask |-> None,
     best_bid |-> None,
     last_price |-> None,
     asks |-> <<>>,
     bids |-> <<>>,
     held_shares |-> Zero,
     average_price |-> None,
     realized_profit |-> Zero]

market_value(m) ==
    IF RLe(m.held_shares, Zero) THEN Zero
    ELSE RMul(m.held_shares,
              OrElse(m.best_bid, OrElse(m.last_price, OrElse(m.average_price, Zero))))

invested_amount(m) ==
    IF RLe(m.held_shares, Zero) \/ m.average_price = None THEN Zero
    ELSE RMul(m.held_shares, m.average_price)

g_for_price(m, price, lambda_days) ==
    IF price = None \/ RLe(price, Zero) \/ RLe(m.resolution_days, Zero) THEN None
    ELSE LET denom == RAdd(m.resolution_days, lambda_days)
         IN  IF RLe(denom, Zero) THEN None
             ELSE RDiv(ln1p(RMul(PayoutFactor, RDiv(RSub(One, price), price))), denom)

g_held(m, lambda_days) ==
    IF RLe(m.held_shares, Zero) \/ ~Truthy(m.average_price) THEN None
    ELSE g_for_price(m, m.average_price, lambda_days)

update_from_snapshot(m, q) ==
    [m EXCEPT !.resolution_days = q.resolution_days,
              !.asks = q.asks,
              !.bids = q.bids,
              !.best_ask = q.best_ask,
              !.best_bid = q.best_bid,
              !.last_price = q.last_price]

buy(m, shares, price) ==
    IF RLe(shares, Zero) THEN m
    ELSE LET total_cost == RMul(shares, price)
             avg == IF RLe(m.held_shares, Zero) \/ ~Truthy(m.average_price)
                    THEN price
                    ELSE RDiv(RAdd(RMul(m.average_price, m.held_shares), total_cost),
                              RAdd(m.held_shares, shares))
         IN  [m EXCEPT !.average_price = avg, !.held_shares = RAdd(m.held_shares, shares)]

(* sell that keeps average_price when the position is closed *)
MutSell(m, shares_in, price) ==
    LET shares == RMin(shares_in, m.held_shares)
    IN  IF RLe(shares, Zero) THEN [market |-> m, proceeds |-> Zero]
        ELSE LET left == RSub(m.held_shares, shares)
             IN  [market |->
                      [m EXCEPT !.held_shares = IF RLe(left, EpsShares) THEN Zero ELSE left,
                                !.realized_profit =
                                    RAdd(@, RSub(RMul(shares, price),
                                                 RMul(shares, OrElse(m.average_price, Zero))))],
                  proceeds |-> RMul(shares, price)]

(* sell returns [market, proceeds] *)
sell(m, shares_in, price) ==
    LET shares == RMin(shares_in, m.held_shares)
    IN  IF RLe(shares, Zero) THEN [market |-> m, proceeds |-> Zero]
        ELSE LET proceeds == RMul(shares, price)
                 cost_basis == RMul(shares, OrElse(m.average_price, Zero))
                 left == RSub(m.held_shares, shares)
                 gone == RLe(left, EpsShares)
             IN  [market |->
                      [m EXCEPT !.held_shares = IF gone THEN Zero ELSE left,
                                !.average_price = IF gone THEN None ELSE @,
                                !.realized_profit = RAdd(@, RSub(proceeds, cost_basis))],
                  proceeds |-> proceeds]

-----------------------------------------------------------------------------
(* Allocation engine: evaluate (engine.py) *)

NoRank == 0

(* the candidate without the day-bounds gate *)
MutEvaluateMarketCandidate(market, policy, global_policy) ==
    Bind(compute_g(market.best_ask, market.resolution_days,
                   global_policy.settlement_lambda_days), LAMBDA g :
    LET best_ask == market.best_ask
        gate == IF ~policy.enabled THEN <<"disabled">>
                ELSE IF best_ask = None THEN <<"missing_best_ask">>
                ELSE IF RLt(best_ask, policy.min_price) \/ RGt(best_ask, policy.max_price)
                     THEN <<"price_bounds">>
                ELSE <<>>
        min_g_threshold == RMax(policy.min_g, global_policy.min_g)
        reasons == IF gate = <<>> /\ (g = None \/ RLt(g, min_g_threshold))
                   THEN <<"min_g">> ELSE gate
    IN  [raised |-> Truthy(best_ask) /\ market.asks = <<>>,
         market_key |-> market.key,
         best_ask |-> best_ask,
         resolution_days |-> market.resolution_days,
         g |-> g,
         capacity_value |->
             IF Truthy(best_ask) /\ market.asks # <<>>
             THEN RMul(best_ask, market.asks[1][2]) ELSE Zero,
         slippage_bps |-> None,
         status |-> IF reasons = <<>> THEN "eligible" ELSE "blocked",
         reasons |-> reasons,
         rank |-> NoRank])

(* The candidate built for one market; raised = TRUE stands for the        *)
(* IndexError of `order_book["asks"][0]` on an empty ask list.             *)
evaluate_market_candidate(market, policy, global_policy) ==
    Bind(compute_g(market.best_ask, market.resolution_days,
                   global_policy.settlement_lambda_days), LAMBDA g :
    LET best_ask == market.best_ask
        gate == IF ~policy.enabled THEN <<"disabled">>
                ELSE IF best_ask = None THEN <<"missing_best_ask">>
                ELSE IF RLt(best_ask, policy.min_price) \/ RGt(best_ask, policy.max_price)
                     THEN <<"price_bounds">>
                ELSE IF RLt(market.resolution_days, policy.min_days)
                        \/ RGt(market.resolution_days, policy.max_days)
                     THEN <<"day_bounds">>
                ELSE <<>>
        min_g_threshold == RMax(policy.min_g, global_policy.min_g)
        reasons == IF gate = <<>> /\ (g = None \/ RLt(g, min_g_threshold))
                   THEN <<"min_g">> ELSE gate
    IN  [raised |-> Truthy(best_ask) /\ market.asks = <<>>,
         market_key |-> market.key,
         best_ask |-> best_ask,
         resolution_days |-> market.resolution_days,
         g |-> g,
         capacity_value |->
             IF Truthy(best_ask) /\ market.asks # <<>>
             THEN RMul(best_ask, market.asks[1][2]) ELSE Zero,
         slippage_bps |-> None,
         status |-> IF reasons = <<>> THEN "eligible" ELSE "blocked",
         reasons |-> reasons,
         rank |-> NoRank])

(* sort key of evaluate: (status != "eligible", -(g or -1)) *)
OppBefore(a, b) ==
    LET ka == RNeg(OrElse(a.g, R(-1)))
        kb == RNeg(OrElse(b.g, R(-1)))
    IN  \/ a.status = "eligible" /\ b.status # "eligible"
        \/ (a.status = "eligible") = (b.status = "eligible") /\ RLt(ka, kb)

(* list.sort is stable: x goes before the first element it is strictly before. *)
RECURSIVE InsertOpp(_, _)
InsertOpp(s, x) ==
    IF s = <<>> THEN <<x>>
    ELSE IF OppBefore(x, Head(s)) THEN <<x>> \o s
    ELSE <<Head(s)>> \o InsertOpp(Tail(s), x)

RECURSIVE SortOpps(_, _)
SortOpps(s, i) == IF i = 0 THEN <<>> ELSE InsertOpp(SortOpps(s, i - 1), s[i])

RECURSIVE AssignRanks(_, _)
AssignRanks(s, rank) ==
    IF s = <<>> THEN <<>>
    ELSE IF Head(s).status = "eligible"
         THEN <<[Head(s) EXCEPT !.rank = rank]>> \o AssignRanks(Tail(s), rank + 1)
         ELSE <<Head(s)>> \o AssignRanks(Tail(s), rank)

SkipRecord(opp, reasons, rank) ==
    [market_key |-> opp.market_key, reasons |-> reasons, g |-> opp.g, rank |-> rank]

NoDecision == [buys |-> <<>>, sells |-> <<>>, rejections |-> <<>>, opportunities |-> <<>>]

(* evaluate that keeps its ranking in last_decision *)
MutEvaluatedState(rs, ranked) ==
    [rs EXCEPT !.last_decision = [NoDecision EXCEPT !.opportunities = ranked]]

(* The RuntimeState evaluate leaves behind: it only reads. *)
EvaluatedState(rs, ranked) == rs

(* rs is the RuntimeState as a record; the result carries the state the call *)
(* leaves behind, the opportunity list and the rejections.                   *)
evaluate(rs, cfg) ==
    Bind([i \in 1..Len(rs.market_order) |->
             evaluate_market_candidate(rs.markets[rs.market_order[i]],
                 get_market_policy(cfg, rs.market_order[i]), cfg.global_policy)],
         LAMBDA opps :
    IF \E i \in 1..Len(opps) : opps[i].raised
    THEN [raised |-> TRUE, state |-> rs, opportunities |-> <<>>, rejections |-> <<>>]
    ELSE Bind(AssignRanks(SortOpps(opps, Len(opps)), 1), LAMBDA ranked :
         Bind(SelectSeq(opps, LAMBDA o : o.status # "eligible"), LAMBDA blocked :
         [raised |-> FALSE,
          state |-> EvaluatedState(rs, ranked),
          opportunities |-> ranked,
          rejections |-> [i \in 1..Len(blocked) |->
                             SkipRecord(blocked[i], blocked[i].reasons, NoRank)]])))

-----------------------------------------------------------------------------
(* Runtime state helpers (runtime_state.py) *)

TradeLogCap == 5000

RECURSIVE SumSeq(_)
SumSeq(s) == IF s = <<>> THEN Zero ELSE RAdd(Head(s), SumSeq(Tail(s)))

list_markets(rs) == [i \in 1..Len(rs.market_order) |-> rs.markets[rs.market_order[i]]]

engaged_markets(rs) == SelectSeq(list_markets(rs), LAMBDA m : RGt(m.held_shares, Zero))

total_invested(rs) ==
    SumSeq([i \in 1..Len(rs.market_order) |-> invested_amount(rs.markets[rs.market_order[i]])])

exposures_by_event(rs) ==
    [e \in {rs.markets[k].parent_event_id : k \in DOMAIN rs.markets} |->
        SumSeq([i \in 1..Len(rs.market_order) |->
            IF rs.markets[rs.market_order[i]].parent_event_id = e
            THEN market_value(rs.markets[rs.market_order[i]]) ELSE Zero])]

exposures_by_month(rs) ==
    [e \in {rs.markets[k].month : k \in DOMAIN rs.markets} |->
        SumSeq([i \in 1..Len(rs.market_order) |->
            IF rs.markets[rs.market_order[i]].month = e
            THEN market_value(rs.markets[rs.market_order[i]]) ELSE Zero])]

(* dict.get(key, 0.0) and dict[key] = value *)
DictGet(f, k) == IF k \in DOMAIN f THEN f[k] ELSE Zero
DictPut(f, k, v) == [x \in DOMAIN f \cup {k} |-> IF x = k THEN v ELSE f[x]]
DictPop(f, k) == [x \in DOMAIN f \ {k} |-> f[x]]

append_trade(log, entry) ==
    LET grown == Append(log, entry)
    IN  IF Len(grown) > TradeLogCap
        THEN SubSeq(grown, Len(grown) - TradeLogCap + 1, Len(grown))
        ELSE grown

(* FreezeStatus.is_active: `until` parses (_parse_iso) and now < until.  A  *)
(* freeze is [reason, until, parses]; parses = FALSE is an `until` string   *)
(* that datetime.fromisoformat rejects.                                     *)
is_active(freeze, now) == now < freeze.until

NoFreeze == [reason |-> "", until |-> 0, parses |-> TRUE]

(* get_freeze returns [raised, freeze, active_freezes] *)
get_freeze(freezes, key, now) ==
    IF key \notin DOMAIN freezes
    THEN [raised |-> FALSE, freeze |-> NoFreeze, active_freezes |-> freezes]
    ELSE IF ~freezes[key].parses
    THEN [raised |-> TRUE, freeze |-> NoFreeze, active_freezes |-> freezes]
    ELSE IF ~is_active(freezes[key], now)
    THEN [raised |-> FALSE, freeze |-> NoFreeze, active_freezes |-> DictPop(freezes, key)]
    ELSE [raised |-> FALSE, freeze |-> freezes[key], active_freezes |-> freezes]

-----------------------------------------------------------------------------
(* Allocation engine: execute (engine.py) *)

NoG == <<-1000000000, 1>>

(* `g if g is not None else -1e9` *)
OrNoG(g) == IF g # None THEN g ELSE NoG

HoldingOf(m, policy, lambda_days) ==
    [key |-> m.key, g |-> OrNoG(g_held(m, lambda_days)), priority |-> policy.priority]

(* the donor order with the priority tie-break upside down *)
MutHoldBefore(a, b) == RLt(a.g, b.g) \/ (a.g = b.g /\ a.priority < b.priority)

(* sort key of the donor list: (g, -priority) *)
HoldBefore(a, b) == RLt(a.g, b.g) \/ (a.g = b.g /\ -a.priority < -b.priority)

RECURSIVE InsertHolding(_, _)
InsertHolding(s, x) ==
    IF s = <<>> THEN <<x>>
    ELSE IF HoldBefore(x, Head(s)) THEN <<x>> \o s
    ELSE <<Head(s)>> \o InsertHolding(Tail(s), x)

RECURSIVE SortHoldings(_, _)
SortHoldings(s, i) == IF i = 0 THEN <<>> ELSE InsertHolding(SortHoldings(s, i - 1), s[i])

(* current_holdings.sort(key=...) *)
Resorted(holdings) == SortHoldings(holdings, Len(holdings))

SetHoldingG(holdings, key, g) ==
    [i \in 1..Len(holdings) |->
        IF holdings[i].key = key THEN [holdings[i] EXCEPT !.g = g] ELSE holdings[i]]

(* the simulated sale without the exit slippage cap *)
Mut_simulate_sell(bids, needed_cash, market, global_policy, policy) ==
    IF bids = <<>> \/ RLe(needed_cash, Zero) THEN ZeroFill
    ELSE Bind(compute_fill_from_bids(bids,
                  RMin(market.held_shares,
                       IF bids[1][1][1] # 0 THEN RDiv(needed_cash, bids[1][1])
                       ELSE market.held_shares)), LAMBDA fill :
         IF RLe(fill.shares, Zero) THEN ZeroFill ELSE fill)

_simulate_sell(bids, needed_cash, market, global_policy, policy) ==
    IF bids = <<>> \/ RLe(needed_cash, Zero) THEN ZeroFill
    ELSE Bind(compute_fill_from_bids(bids,
                  RMin(market.held_shares,
                       IF bids[1][1][1] # 0 THEN RDiv(needed_cash, bids[1][1])
                       ELSE market.held_shares)), LAMBDA fill :
         IF RLe(fill.shares, Zero) THEN ZeroFill
         ELSE IF RGt(fill.slippage_bps, effective_exit_slippage_cap(policy, global_policy))
         THEN ZeroFill
         ELSE fill)

(* the donor test with its comparison inverted *)
MutDonorEligible(opp_g, g_candidate, delta_threshold) ==
    RLt(opp_g, RAdd(g_candidate, delta_threshold))

(* The donor test of the funding loop: the donor is passed over when       *)
(* opportunity.g < g_candidate + delta_threshold.                          *)
DonorEligible(opp_g, g_candidate, delta_threshold) ==
    ~RLt(opp_g, RAdd(g_candidate, delta_threshold))

(* Cash that rotation must raise before a buy of `cost` can be committed. *)
NeededCash(cash, cost, cash_reserve_value) ==
    IF RLt(RSub(cash, cost), cash_reserve_value)
    THEN RSub(cost, RMax(Zero, RSub(cash, cash_reserve_value)))
    ELSE Zero

(* One iteration of `for record in candidates` for donor key dk.  fs is    *)
(* [ctx, needed, sold, done].                                               *)
FundStep(fs, dk, opp, cost, cfg) ==
    LET ctx == fs.ctx
        gp == cfg.global_policy
        cm == fs.ctx.markets[dk]
        cp == get_market_policy(cfg, dk)
    IN  Bind(g_held(cm, gp.settlement_lambda_days), LAMBDA g_candidate :
        IF g_candidate = None THEN fs
        ELSE IF ~DonorEligible(opp.g, g_candidate, gp.delta_threshold) THEN fs
        ELSE Bind(_simulate_sell(cm.bids, fs.needed, cm, gp, cp), LAMBDA sim :
        IF RLe(sim.shares, Zero) THEN fs
        ELSE Bind(sell(cm, sim.shares, sim.avg_price), LAMBDA sold :
             Bind(RAdd(ctx.cash, sold.proceeds), LAMBDA cash :
             Bind(RMax(Zero, RSub(cost, RMax(Zero, RSub(cash, ctx.cash_reserve_value)))),
                  LAMBDA needed :
             LET notional == RMul(sim.avg_price, sim.shares)
                 sell_record ==
                     [market_key |-> dk,
                      shares |-> sim.shares,
                      price |-> sim.avg_price,
                      value |-> sold.proceeds,
                      slippage_bps |-> sim.slippage_bps,
                      exit_slippage_cap_bps |-> effective_exit_slippage_cap(cp, gp),
                      g_before |-> g_candidate,
                      target_key |-> opp.market_key,
                      target_g |-> opp.g,
                      delta_threshold |-> gp.delta_threshold,
                      needed_before |-> fs.needed,
                      remaining_shares |-> sold.market.held_shares,
                      rank |-> opp.rank]
             IN  [ctx |->
                      [ctx EXCEPT
                          !.cash = cash,
                          !.markets[dk] = sold.market,
                          !.exposures_event =
                              DictPut(@, cm.parent_event_id,
                                  RMax(Zero, RSub(DictGet(@, cm.parent_event_id), notional))),
                          !.exposures_month =
                              DictPut(@, cm.month,
                                  RMax(Zero, RSub(DictGet(@, cm.month), notional))),
                          !.sells = Append(@, sell_record),
                          !.trade_log =
                              append_trade(@, [action |-> "SELL", market_key |-> dk,
                                               shares |-> sim.shares, price |-> sim.avg_price,
                                               value |-> sold.proceeds,
                                               reasons |-> <<"rotation">>]),
                          !.holdings =
                              Resorted(SetHoldingG(@, dk,
                                  OrNoG(g_held(sold.market, gp.settlement_lambda_days))))],
                  needed |-> needed,
                  sold |-> fs.sold + 1,
                  done |-> RLe(needed, EpsCash)])))))

RECURSIVE FundLoop(_, _, _, _, _, _)
FundLoop(fs, candidates, j, opp, cost, cfg) ==
    IF j > Len(candidates) \/ fs.done THEN fs
    ELSE FundLoop(FundStep(fs, candidates[j], opp, cost, cfg), candidates, j + 1, opp, cost, cfg)


(* append_skip *)
Skip(ctx, opp, reasons) == [ctx EXCEPT !.rejections = Append(@, SkipRecord(opp, reasons, opp.rank))]

(* the per-cycle cap left out of the target *)
MutAllocationTarget(policy, total_budget, current_invested) ==
    LET max_allocation_pct ==
            IF policy.max_allocation_pct # None THEN policy.max_allocation_pct ELSE One
        max_market_value == RMul(total_budget, max_allocation_pct)
    IN  RMax(Zero, RSub(RMin(policy.max_notional, max_market_value), current_invested))

(* target notional of one candidate: per-cycle cap and allocation headroom *)
AllocationTarget(policy, total_budget, current_invested) ==
    LET max_allocation_pct ==
            IF policy.max_allocation_pct # None THEN policy.max_allocation_pct ELSE One
        max_market_value == RMul(total_budget, max_allocation_pct)
        remaining_notional ==
            RMax(Zero, RSub(RMin(policy.max_notional, max_market_value), current_invested))
    IN  IF RGt(policy.per_pass_buy_cap, Zero)
        THEN RMin(policy.per_pass_buy_cap, remaining_notional)
        ELSE remaining_notional

(* ... clamped by the parent-event and resolution-month headroom *)
PortfolioTarget(target_value, policy, global_policy, total_budget, parent_total, month_total) ==
    LET parent_cap_pct == OrElse(policy.max_per_event_pct, global_policy.max_parent_allocation_pct)
        month_cap_pct == OrElse(policy.max_per_month_pct, global_policy.max_month_allocation_pct)
        remaining_parent == RMax(Zero, RSub(RMul(total_budget, parent_cap_pct), parent_total))
        remaining_month == RMax(Zero, RSub(RMul(total_budget, month_cap_pct), month_total))
    IN  RMin(target_value, RMin(remaining_parent, remaining_month))

(* the whitelist flag read the wrong way round *)
MutFreezeBlocks(fr, policy) == fr.freeze # NoFreeze /\ policy.whitelist_autobuy

(* Whether the freeze read for the market stops the buy. *)
FreezeBlocks(fr, policy) == fr.freeze # NoFreeze /\ ~policy.whitelist_autobuy

(* A fill too small to trade is dropped by `continue` without a record. *)
DropEmptyFill(ctx, opp) == ctx

(* Commit of a funded buy (engine.py 443-518).  The buy record carries the  *)
(* fields the engine reads back or reports as amounts; its expected_profit  *)
(* figure and timestamps are left out.                                      *)
CommitBuy(ctx, i, opp, policy, cfg, fill, cost, slippage_cap, rotated) ==
    Bind(buy(ctx.markets[opp.market_key], fill.shares, fill.avg_price), LAMBDA bought :
    Bind(g_held(bought, cfg.global_policy.settlement_lambda_days), LAMBDA g_after :
    LET gp == cfg.global_policy
        market == ctx.markets[opp.market_key]
        g_before == g_held(market, gp.settlement_lambda_days)
        buy_record ==
            [type |-> IF RGt(market.held_shares, EpsShares) THEN "top_up" ELSE "buy",
             market_key |-> opp.market_key,
             shares |-> fill.shares,
             price |-> fill.avg_price,
             cost |-> cost,
             slippage_bps |-> fill.slippage_bps,
             slippage_cap_bps |-> slippage_cap,
             rank |-> opp.rank,
             g |-> opp.g,
             g_before |-> g_before,
             g_after |-> g_after,
             previous_shares |-> market.held_shares,
             new_shares |-> bought.held_shares,
             new_avg_price |-> bought.average_price]
        holdings ==
            IF ~policy.auto_sell THEN ctx.holdings
            ELSE Resorted(IF \E n \in 1..Len(ctx.holdings) : ctx.holdings[n].key = opp.market_key
                          THEN SetHoldingG(ctx.holdings, opp.market_key, OrNoG(g_after))
                          ELSE Append(ctx.holdings,
                                   [key |-> opp.market_key, g |-> OrNoG(g_after),
                                    priority |-> policy.priority]))
    IN  [ctx EXCEPT
            !.opportunities[i].slippage_bps = fill.slippage_bps,
            !.cash = RSub(ctx.cash, cost),
            !.markets[opp.market_key] = bought,
            !.exposures_event =
                DictPut(@, market.parent_event_id, RAdd(DictGet(@, market.parent_event_id), cost)),
            !.exposures_month = DictPut(@, market.month, RAdd(DictGet(@, market.month), cost)),
            !.buys = Append(@, buy_record),
            !.trade_log =
                append_trade(@, [action |-> "BUY", market_key |-> opp.market_key,
                                 shares |-> fill.shares, price |-> fill.avg_price,
                                 value |-> cost,
                                 reasons |-> IF rotated THEN <<"rotation">> ELSE <<"entry">>]),
            !.holdings = holdings]))

(* Funding check and rotation (engine.py 339-441), then the commit. *)
FundAndBuy(ctx, i, opp, policy, cfg, fill, slippage_cap) ==
    LET cost == RMul(fill.avg_price, fill.shares)
        needed_cash == NeededCash(ctx.cash, cost, ctx.cash_reserve_value)
    IN  IF RGt(needed_cash, EpsCash)
        THEN Bind(FundLoop([ctx |-> ctx, needed |-> needed_cash, sold |-> 0, done |-> FALSE],
                           SelectSeq([n \in 1..Len(ctx.holdings) |-> ctx.holdings[n].key],
                                     LAMBDA k : k # opp.market_key),
                           1, opp, cost, cfg), LAMBDA fs :
             IF RGt(fs.needed, EpsCash)
             THEN Skip(fs.ctx, opp, <<"insufficient_cash">>)
             ELSE CommitBuy(fs.ctx, i, opp, policy, cfg, fill, cost, slippage_cap, fs.sold > 0))
        ELSE CommitBuy(ctx, i, opp, policy, cfg, fill, cost, slippage_cap, FALSE)

(* the rotation gate without the held position *)
MutRequiredG(g_held_, policy, global_policy) == RMax(global_policy.min_g, policy.min_g)

(* required_g = max(global min_g, market min_g, (g_held or 0.0) + delta_threshold) *)
required_g(g_held_, policy, global_policy) ==
    RMax(global_policy.min_g,
         RMax(policy.min_g, RAdd(OrElse(g_held_, Zero), global_policy.delta_threshold)))

(* Body of `for opportunity in evaluation.opportunities` for entry i. *)
ProcessOpportunity(ctx, i, cfg, now) ==
    LET opp == ctx.opportunities[i]
        gp == cfg.global_policy
        market == ctx.markets[opp.market_key]
        policy == get_market_policy(cfg, opp.market_key)
        held_g == g_held(market, gp.settlement_lambda_days)
        slippage_cap == effective_slippage_cap(policy, gp)
    IN  IF opp.status # "eligible" \/ opp.g = None THEN ctx
        ELSE IF RLt(opp.g, required_g(held_g, policy, gp))
             THEN Skip(ctx, opp, <<"delta_threshold">>)
        ELSE IF ~policy.auto_buy THEN Skip(ctx, opp, <<"auto_buy_disabled">>)
        ELSE Bind(get_freeze(ctx.active_freezes, opp.market_key, now), LAMBDA fr :
        IF fr.raised THEN [ctx EXCEPT !.raised = TRUE]
        ELSE Bind([ctx EXCEPT !.active_freezes = fr.active_freezes], LAMBDA thawed :
        IF FreezeBlocks(fr, policy) THEN Skip(thawed, opp, <<"freeze:" \o fr.freeze.reason>>)
        ELSE IF market.asks = <<>> THEN Skip(thawed, opp, <<"no_liquidity">>)
        ELSE Bind(AllocationTarget(policy, ctx.total_budget, invested_amount(market)),
                  LAMBDA target1 :
        IF RLe(target1, EpsCash) THEN Skip(thawed, opp, <<"allocation_cap">>)
        ELSE Bind(PortfolioTarget(target1, policy, gp, ctx.total_budget,
                      DictGet(ctx.exposures_event, market.parent_event_id),
                      DictGet(ctx.exposures_month, market.month)), LAMBDA target2 :
        IF RLe(target2, EpsCash) THEN Skip(thawed, opp, <<"portfolio_cap">>)
        ELSE Bind(compute_fill_from_asks(market.asks, target2), LAMBDA fill :
        IF RLe(fill.shares, EpsShares) THEN DropEmptyFill(thawed, opp)
        ELSE IF RGt(fill.slippage_bps, slippage_cap) THEN Skip(thawed, opp, <<"slippage_cap">>)
        ELSE FundAndBuy(thawed, i, opp, policy, cfg, fill, slippage_cap))))))

RECURSIVE ExecLoop(_, _, _, _)
ExecLoop(ctx, i, cfg, now) ==
    IF i > Len(ctx.opportunities) \/ ctx.raised THEN ctx
    ELSE ExecLoop(ProcessOpportunity(ctx, i, cfg, now), i + 1, cfg, now)

(* execute returns [raised, state, decision].  When get_freeze raises in the *)
(* middle of the loop, the positions, trade log, budget and freeze table     *)
(* already written stay written; cash_balance and last_decision are assigned *)
(* only at the end.  decision holds the records the cycle appended, also for *)
(* a cycle that raised before it could return them.                          *)
(* The donor list built before the loop: engaged markets with auto_sell, *)
(* sorted by (g, -priority).                                            *)
(* the donor list without the auto_sell filter *)
Mutcurrent_holdings(rs, cfg) ==
    Bind(engaged_markets(rs), LAMBDA donors :
    Resorted([n \in 1..Len(donors) |->
                 HoldingOf(donors[n], get_market_policy(cfg, donors[n].key),
                           cfg.global_policy.settlement_lambda_days)]))

current_holdings(rs, cfg) ==
    Bind(SelectSeq(engaged_markets(rs), LAMBDA m : get_market_policy(cfg, m.key).auto_sell),
         LAMBDA donors :
    Resorted([n \in 1..Len(donors) |->
                 HoldingOf(donors[n], get_market_policy(cfg, donors[n].key),
                           cfg.global_policy.settlement_lambda_days)]))

(* Locals of execute at the top of the loop. *)
StartOfCycle(rs, cfg, total_budget, opportunities) ==
    [cash |-> rs.cash_balance,
     total_budget |-> total_budget,
     cash_reserve_value |-> RMul(total_budget, cfg.global_policy.cash_reserve_pct),
     markets |-> rs.markets,
     active_freezes |-> rs.active_freezes,
     exposures_event |-> exposures_by_event(rs),
     exposures_month |-> exposures_by_month(rs),
     holdings |-> current_holdings(rs, cfg),
     opportunities |-> opportunities,
     buys |-> <<>>,
     sells |-> <<>>,
     rejections |-> <<>>,
     trade_log |-> rs.trade_log,
     raised |-> FALSE]

(* What the loop has written into the state object when it ends or raises. *)
Written(rs, ctx) ==
    [rs EXCEPT !.total_budget = ctx.total_budget,
               !.markets = ctx.markets,
               !.active_freezes = ctx.active_freezes,
               !.trade_log = ctx.trade_log]

DecisionOf(ctx) ==
    [buys |-> ctx.buys, sells |-> ctx.sells, rejections |-> ctx.rejections,
     opportunities |-> ctx.opportunities]

execute(rs, cfg, now) ==
    Bind(evaluate(rs, cfg), LAMBDA evaluation :
    IF evaluation.raised
    THEN [raised |-> TRUE, state |-> rs, decision |-> NoDecision]
    ELSE Bind(IF RLe(rs.total_budget, Zero) THEN RAdd(rs.cash_balance, total_invested(rs))
              ELSE rs.total_budget, LAMBDA total_budget :
         Bind(ExecLoop(StartOfCycle(rs, cfg, total_budget, evaluation.opportunities),
                       1, cfg, now), LAMBDA ctx :
         IF ctx.raised
         THEN [raised |-> TRUE, state |-> Written(rs, ctx), decision |-> DecisionOf(ctx)]
         ELSE [raised |-> FALSE,
               state |-> [Written(rs, ctx) EXCEPT !.cash_balance = ctx.cash,
                                                  !.last_decision = DecisionOf(ctx)],
               decision |-> DecisionOf(ctx)])))

-----------------------------------------------------------------------------
(* Runtime state: market management (runtime_state.py) *)

(* add_market returns [raised, state] *)
add_market(rs, market) ==
    IF market.key \in DOMAIN rs.markets THEN [raised |-> TRUE, state |-> rs]
    ELSE [raised |-> FALSE,
          state |->
              [rs EXCEPT
                  !.markets = DictPut(@, market.key, market),
                  !.market_order = Append(@, market.key),
                  !.strategy_priority =
                      IF \E i \in 1..Len(@) : @[i] = market.key THEN @
                      ELSE Append(@, market.key)]]

(* removal that never looks at the position *)
MutHasOpenPosition(market) == FALSE

HasOpenPosition(market) == RGt(market.held_shares, Zero)

(* remove_market returns [raised, state] *)
remove_market(rs, key) ==
    IF key \notin DOMAIN rs.markets THEN [raised |-> FALSE, state |-> rs]
    ELSE IF HasOpenPosition(rs.markets[key]) THEN [raised |-> TRUE, state |-> rs]
    ELSE [raised |-> FALSE,
          state |->
              [rs EXCEPT
                  !.markets = DictPop(@, key),
                  !.market_order = SelectSeq(@, LAMBDA k : k # key),
                  !.strategy_priority = SelectSeq(@, LAMBDA k : k # key),
                  !.active_freezes = DictPop(@, key)]]

set_freeze(rs, key, freeze) == [rs EXCEPT !.active_freezes = DictPut(@, key, freeze)]

-----------------------------------------------------------------------------
(* Bounds and input domains of the model *)

MaxCycles == 2
MaxChanges == 2
MaxTime == 1

Keys == {"m1", "m2"}

EventOf(k) == "e1"
MonthOf(k) == IF k = "m1" THEN "2026-12" ELSE "2027-01"

Budget == R(10)

Level(pn, pd, size) == <<Rat(pn, pd), R(size)>>

Quote(ask, asks, bid, bids, days) ==
    [best_ask |-> ask, asks |-> asks, best_bid |-> bid, bids |-> bids,
     last_price |-> None, resolution_days |-> R(days)]

(* Quotes a snapshot can deliver for a market.  The refresh path derives     *)
(* best_ask/best_bid from the first book level; a persisted document         *)
(* restores them on their own, which is the quote with a best ask and no ask *)
(* book.                                                                     *)
QuoteFair == Quote(Rat(1, 2), <<Level(1, 2, 20)>>, Rat(2, 5), <<Level(2, 5, 20)>>, 9)
(* the same book resolving sooner: a higher g at the same price *)
QuoteSoon == Quote(Rat(1, 2), <<Level(1, 2, 20)>>, Rat(2, 5), <<Level(2, 5, 20)>>, 4)
QuoteZeroSize == Quote(Rat(1, 2), <<Level(1, 2, 0)>>, None, <<>>, 9)
QuoteNoBook == Quote(Rat(1, 2), <<>>, Rat(2, 5), <<Level(2, 5, 20)>>, 9)
QuoteNoAsk == Quote(None, <<>>, Rat(2, 5), <<Level(2, 5, 20)>>, 9)
(* an ask book holding 2e-6 shares: the whole fill costs 1e-6 *)
QuoteDust == Quote(Rat(1, 2), << <<Rat(1, 2), Rat(1, 500000)>> >>, None, <<>>, 9)

QuotesOf(k) ==
    IF k = "m1" THEN {QuoteFair, QuoteZeroSize, QuoteNoAsk, QuoteDust}
    ELSE {QuoteFair, QuoteSoon, QuoteNoBook, QuoteDust}

RotationGlobal ==
    [GlobalPolicy EXCEPT !.delta_threshold = Zero,
                         !.cash_reserve_pct = Rat(1, 10),
                         !.max_parent_allocation_pct = One,
                         !.max_month_allocation_pct = One]

TradingPolicy ==
    [MarketPolicy EXCEPT !.auto_buy = TRUE,
                         !.max_allocation_pct = One,
                         !.per_pass_buy_cap = R(6)]

Configs ==
    { [global_policy |-> RotationGlobal,
       market_policies |->
           [k \in Keys |-> IF k = "m2" THEN [TradingPolicy EXCEPT !.whitelist_autobuy = TRUE]
                           ELSE TradingPolicy]],
      [global_policy |-> [RotationGlobal EXCEPT !.cash_reserve_pct = One],
       market_policies |-> [k \in Keys |-> TradingPolicy]],
      [global_policy |-> GlobalPolicy,
       market_policies |->
           [k \in {"default", "m2"} |->
               IF k = "m2" THEN MarketPolicy ELSE [MarketPolicy EXCEPT !.auto_buy = TRUE]]] }

-----------------------------------------------------------------------------
(* State *)

VARIABLES
    now,                \* wall clock (_now)
    config,             \* SimulatorConfig held by the engine
    total_budget,       \* RuntimeState.total_budget
    cash_balance,       \* RuntimeState.cash_balance
    markets,            \* RuntimeState.markets (key -> MarketState)
    market_order,       \* insertion order of RuntimeState.markets
    strategy_priority,  \* RuntimeState.strategy_priority
    trade_log,          \* RuntimeState.trade_log
    active_freezes,     \* RuntimeState.active_freezes
    last_decision,      \* RuntimeState.last_decision
    call,               \* the last engine or removal call and what it returned
    cycles,             \* number of execute() calls so far
    changes,            \* number of market-list, quote and freeze writes so far
    input               \* argument of the pure function under check

vars ==
    <<now, config, total_budget, cash_balance, markets, market_order, strategy_priority,
      trade_log, active_freezes, last_decision, call, cycles, changes, input>>

RS ==
    [total_budget |-> total_budget,
     cash_balance |-> cash_balance,
     markets |-> markets,
     market_order |-> market_order,
     strategy_priority |-> strategy_priority,
     trade_log |-> trade_log,
     active_freezes |-> active_freezes,
     last_decision |-> last_decision]

(* The state an operation leaves behind becomes the next state. *)
Becomes(rs) ==
    /\ total_budget' = rs.total_budget
    /\ cash_balance' = rs.cash_balance
    /\ markets' = rs.markets
    /\ market_order' = rs.market_order
    /\ strategy_priority' = rs.strategy_priority
    /\ trade_log' = rs.trade_log
    /\ active_freezes' = rs.active_freezes
    /\ last_decision' = rs.last_decision

EmptyDict == [k \in {} |-> Zero]

(* ensure_runtime_state on a new file: cash = budget, nothing tracked *)
FreshState ==
    /\ total_budget = Budget
    /\ cash_balance = Budget
    /\ markets = EmptyDict
    /\ market_order = <<>>
    /\ strategy_priority = <<>>
    /\ trade_log = <<>>
    /\ active_freezes = EmptyDict
    /\ last_decision = NoDecision

NoCall == [op |-> "none", raised |-> FALSE]

Init ==
    /\ now = 0
    /\ config \in Configs
    /\ FreshState
    /\ call = NoCall
    /\ cycles = 0
    /\ changes = 0
    /\ input = <<>>

-----------------------------------------------------------------------------
(* Operations *)

Change ==
    /\ changes < MaxChanges
    /\ changes' = changes + 1

Tick ==
    /\ now < MaxTime
    /\ now' = now + 1
    /\ call' = NoCall
    /\ UNCHANGED <<config, total_budget, cash_balance, markets, market_order, strategy_priority,
                   trade_log, active_freezes, last_decision, cycles, changes, input>>

(* AddMarketDialog: a market is built from a snapshot, then added. *)
AddMarket(k, q) ==
    /\ k \notin DOMAIN markets
    /\ Change
    /\ \E r \in {add_market(RS, update_from_snapshot(NewMarket(k, EventOf(k), MonthOf(k)), q))} :
        Becomes(r.state)
    /\ call' = NoCall
    /\ UNCHANGED <<now, config, cycles, input>>

RemoveMarket(k) ==
    /\ k \in DOMAIN markets
    /\ Change
    /\ \E r \in {remove_market(RS, k)} :
        /\ Becomes(r.state)
        /\ call' = [op |-> "remove_market", raised |-> r.raised, key |-> k]
    /\ UNCHANGED <<now, config, cycles, input>>

(* quote refresh of one tracked market *)
Refresh(k, q) ==
    /\ k \in DOMAIN markets
    /\ Change
    /\ markets' = [markets EXCEPT ![k] = update_from_snapshot(@, q)]
    /\ call' = NoCall
    /\ UNCHANGED <<now, config, total_budget, cash_balance, market_order, strategy_priority,
                   trade_log, active_freezes, last_decision, cycles, input>>

SetFreeze(k, parses) ==
    /\ k \in DOMAIN markets
    /\ Change
    /\ Becomes(set_freeze(RS, k, [reason |-> "price_drop", until |-> now + 1, parses |-> parses]))
    /\ call' = NoCall
    /\ UNCHANGED <<now, config, cycles, input>>

Evaluate ==
    \E r \in {evaluate(RS, config)} :
        /\ Becomes(r.state)
        /\ call' = [op |-> "evaluate", raised |-> r.raised,
                    opportunities |-> r.opportunities, rejections |-> r.rejections]
        /\ UNCHANGED <<now, config, cycles, changes, input>>

Execute ==
    /\ cycles < MaxCycles
    /\ cycles' = cycles + 1
    /\ \E r \in {execute(RS, config, now)} :
        /\ Becomes(r.state)
        /\ call' = [op |-> "execute", raised |-> r.raised, decision |-> r.decision]
    /\ UNCHANGED <<now, config, changes, input>>

Next ==
    \/ Tick
    \/ \E k \in Keys : \E q \in QuotesOf(k) : AddMarket(k, q)
    \/ \E k \in Keys : RemoveMarket(k)
    \/ \E k \in Keys : \E q \in QuotesOf(k) : Refresh(k, q)
    \/ \E k \in Keys, parses \in BOOLEAN : SetFreeze(k, parses)
    \/ Evaluate
    \/ Execute

Spec == Init /\ [][Next]_vars

-----------------------------------------------------------------------------
(* Harnesses for the pure functions: the arguments are drawn by the initial *)
(* predicate into `input`, the call puts what it returned into `call`.      *)

Idle ==
    /\ now = 0
    /\ config = [global_policy |-> GlobalPolicy, market_policies |-> EmptyDict]
    /\ FreshState
    /\ call = NoCall
    /\ cycles = 0
    /\ changes = 0

Returns(op, result) ==
    /\ call = NoCall
    /\ call' = [op |-> op, raised |-> FALSE, result |-> result]
    /\ UNCHANGED <<now, config, total_budget, cash_balance, markets, market_order,
                   strategy_priority, trade_log, active_freezes, last_decision, cycles,
                   changes, input>>

(* compute_fill_from_asks *)

MaxLevels == 2

FillLevels == {<<price, size>> : price \in {Zero, Rat(1, 4), Rat(1, 2)}, size \in {Zero, R(2), R(4)}}
AskBooks == UNION {[1..n -> FillLevels] : n \in 0..MaxLevels}
FillTargets == {R(-1), Zero, Rat(1, 2), One, R(3)}

InitFill == Idle /\ input \in [asks : AskBooks, max_value : FillTargets]

FillFromAsks ==
    Returns("compute_fill_from_asks", compute_fill_from_asks(input.asks, input.max_value))

SpecFill == InitFill /\ [][FillFromAsks]_vars

(* compute_g *)

MaxPriceQuarters == 6
MaxDays == 3

ScorePrices == {None} \cup {Rat(n, 4) : n \in -1..MaxPriceQuarters}
ScoreDays == {R(d) : d \in -2..MaxDays}
ScoreLambdas == {Zero, Rat(1, 2), One}

InitG ==
    Idle /\ input \in [price : ScorePrices, resolution_days : ScoreDays,
                       lambda_days : ScoreLambdas]

ComputeG ==
    Returns("compute_g", compute_g(input.price, input.resolution_days, input.lambda_days))

SpecG == InitG /\ [][ComputeG]_vars

(* MarketState.buy and MarketState.sell on one position *)

MaxTrades == 3

TradeShares == {R(-1), Zero, One, R(2)}
TradePrices == {Rat(-1, 4), Zero, Rat(1, 4), Rat(1, 2)}

InitPosition ==
    /\ now = 0
    /\ config = [global_policy |-> GlobalPolicy, market_policies |-> EmptyDict]
    /\ total_budget = Budget
    /\ cash_balance = Budget
    /\ markets = [k \in {"m1"} |-> NewMarket(k, EventOf(k), MonthOf(k))]
    /\ market_order = <<"m1">>
    /\ strategy_priority = <<"m1">>
    /\ trade_log = <<>>
    /\ active_freezes = EmptyDict
    /\ last_decision = NoDecision
    /\ call = NoCall
    /\ cycles = 0
    /\ changes = 0
    /\ input = <<>>

Trade ==
    /\ changes < MaxTrades
    /\ changes' = changes + 1
    /\ UNCHANGED <<now, config, total_budget, cash_balance, market_order, strategy_priority,
                   trade_log, active_freezes, last_decision, cycles, input>>

PositionBuy(shares, price) ==
    /\ Trade
    /\ markets' = [markets EXCEPT !["m1"] = buy(@, shares, price)]
    /\ call' = [op |-> "buy", raised |-> FALSE, shares |-> shares, price |-> price]

PositionSell(shares, price) ==
    /\ Trade
    /\ \E r \in {sell(markets["m1"], shares, price)} :
        /\ markets' = [markets EXCEPT !["m1"] = r.market]
        /\ call' = [op |-> "sell", raised |-> FALSE, shares |-> shares, price |-> price,
                    proceeds |-> r.proceeds]

NextPosition ==
    \/ \E shares \in TradeShares, price \in TradePrices : PositionBuy(shares, price)
    \/ \E shares \in TradeShares, price \in TradePrices : PositionSell(shares, price)

SpecPosition == InitPosition /\ [][NextPosition]_vars

-----------------------------------------------------------------------------
(* Freeze table: set_freeze and get_freeze called on their own.  The clock  *)
(* counts hours.  A freeze whose `until` does not parse is the one          *)
(* _evaluate_circuit_breakers writes: isoformat() of an aware datetime      *)
(* already ends in "+00:00", and the "Z" appended to it becomes a second    *)
(* offset in _parse_iso.                                                    *)

MaxFreezeTime == 2
MaxFreezeWrites == 2

FreezeHours == {1, 2}

InitFreeze == Idle /\ input = <<>>

WriteFreeze(k, hours, parses) ==
    /\ changes < MaxFreezeWrites
    /\ changes' = changes + 1
    /\ Becomes(set_freeze(RS, k, [reason |-> "price_drop", until |-> now + hours,
                                  parses |-> parses]))
    /\ call' = NoCall
    /\ UNCHANGED <<now, config, cycles, input>>

Clock ==
    /\ now < MaxFreezeTime
    /\ now' = now + 1
    /\ call' = NoCall
    /\ UNCHANGED <<config, total_budget, cash_balance, markets, market_order, strategy_priority,
                   trade_log, active_freezes, last_decision, cycles, changes, input>>

GetFreeze(k) ==
    \E r \in {get_freeze(active_freezes, k, now)} :
        /\ active_freezes' = r.active_freezes
        /\ call' = [op |-> "get_freeze", raised |-> r.raised, key |-> k, freeze |-> r.freeze]
        /\ UNCHANGED <<now, config, total_budget, cash_balance, markets, market_order,
                       strategy_priority, trade_log, last_decision, cycles, changes, input>>

NextFreeze ==
    \/ \E k \in Keys, hours \in FreezeHours, parses \in BOOLEAN : WriteFreeze(k, hours, parses)
    \/ Clock
    \/ \E k \in Keys : GetFreeze(k)

SpecFreeze == InitFreeze /\ [][NextFreeze]_vars

(* RuntimeState.load / from_dict *)

RUNTIME_SCHEMA_VERSION == "1"

(* data.get(field, default) *)
DataGet(data, field, default) == IF field \in DOMAIN data THEN data[field] ELSE default

_market_from_dict(data) ==
    [key |-> data.key,
     parent_event_id |-> DataGet(data, "parent_event_id", data.key),
     month |-> data.month,
     resolution_days |-> DataGet(data, "resolution_days", Zero),
     best_ask |-> DataGet(data, "best_ask", None),
     best_bid |-> DataGet(data, "best_bid", None),
     last_price |-> DataGet(data, "last_price", None),
     asks |-> DataGet(data, "asks", <<>>),
     bids |-> DataGet(data, "bids", <<>>),
     held_shares |-> DataGet(data, "held_shares", Zero),
     average_price |-> DataGet(data, "average_price", None),
     realized_profit |-> DataGet(data, "realized_profit", Zero)]

_ensure_priority_consistency(priority, order) ==
    LET keys == {order[i] : i \in 1..Len(order)}
        kept == SelectSeq(priority, LAMBDA k : k \in keys)
        listed == {kept[i] : i \in 1..Len(kept)}
    IN  kept \o SelectSeq(order, LAMBDA k : k \notin listed)

(* the document's "markets" object is the sequence of its entries, in file order *)
from_dict(data) ==
    LET entries == DataGet(data, "markets", <<>>)
        order == [i \in 1..Len(entries) |-> entries[i].key]
    IN  [schema_version |-> DataGet(data, "schema_version", RUNTIME_SCHEMA_VERSION),
         total_budget |-> DataGet(data, "total_budget", Zero),
         cash_balance |-> DataGet(data, "cash_balance", Zero),
         markets |-> [k \in {order[i] : i \in 1..Len(order)} |->
                         _market_from_dict(entries[CHOOSE i \in 1..Len(entries) : entries[i].key = k])],
         market_order |-> order,
         strategy_priority |-> _ensure_priority_consistency(DataGet(data, "strategy_priority", <<>>), order),
         trade_log |-> DataGet(data, "trade_log", <<>>),
         active_freezes |-> DataGet(data, "active_freezes", EmptyDict),
         last_decision |-> DataGet(data, "last_decision", NoDecision)]

DocumentVersions == {"0", "1", "2"}
DocumentCash == {Zero, R(4), Budget}
DocumentMarkets == {<<>>, <<"m1">>, <<"m1", "m2">>, <<"m2", "m1">>}
DocumentPriorities == {<<>>, <<"m2">>, <<"m2", "m1">>}

(* a market as _market_to_dict writes it *)
SavedMarket(k) == NewMarket(k, EventOf(k), MonthOf(k))

Document(versioned, version, budget, cash, keys, priority) ==
    LET body == [total_budget |-> budget,
                 cash_balance |-> cash,
                 markets |-> [i \in 1..Len(keys) |-> SavedMarket(keys[i])],
                 strategy_priority |-> priority]
    IN  IF versioned THEN ("schema_version" :> version) @@ body ELSE body

Documents ==
    {Document(versioned, version, budget, cash, keys, priority) :
        versioned \in BOOLEAN, version \in DocumentVersions, budget \in {Zero, Budget},
        cash \in DocumentCash, keys \in DocumentMarkets, priority \in DocumentPriorities}

InitLoad == Idle /\ input \in Documents

Load ==
    /\ call = NoCall
    /\ \E state \in {from_dict(input)} :
          /\ Becomes(state)
          /\ call' = [op |-> "load", raised |-> FALSE, schema_version |-> state.schema_version]
    /\ UNCHANGED <<now, config, cycles, changes, input>>

SpecLoad == InitLoad /\ [][Load]_vars

(* load_config / validate_config / reload_config *)

CONFIG_SCHEMA_VERSION == "1"

(* raw is the parsed YAML: a mapping in which any key may be missing *)
load_config(raw) ==
    LET global_raw == DataGet(raw, "global", EmptyDict)
        markets_raw == DataGet(raw, "markets", EmptyDict)
        default(field) == GlobalPolicy[field]
        global_policy == [field \in DOMAIN GlobalPolicy |->
                              DataGet(global_raw, field, default(field))]
        policy(policy_raw) ==
            [field \in DOMAIN MarketPolicy |->
                IF field = "slippage_cap_bps"
                THEN DataGet(policy_raw, field, global_policy.slippage_cap_bps)
                ELSE DataGet(policy_raw, field, MarketPolicy[field])]
    IN  IF DataGet(raw, "schema_version", CONFIG_SCHEMA_VERSION) # CONFIG_SCHEMA_VERSION
        THEN [raised |-> TRUE, config |-> None]
        ELSE [raised |-> FALSE,
              config |-> [global_policy |-> global_policy,
                          market_policies |-> [id \in DOMAIN markets_raw |->
                                                  policy(markets_raw[id])]]]

Between01(x) == RLe(Zero, x) /\ RLe(x, One)

(* the checks of validate_config on one market policy; TRUE when none raises *)
validate_policy(policy) ==
    /\ Between01(policy.max_allocation_pct)
    /\ RGe(policy.max_notional, Zero)
    /\ RGe(policy.per_pass_buy_cap, Zero)
    /\ Between01(policy.min_price)
    /\ Between01(policy.max_price)
    /\ RLe(policy.min_price, policy.max_price)
    /\ RGe(policy.min_days, Zero)
    /\ RGe(policy.max_days, policy.min_days)
    /\ RGe(policy.min_g, Zero)
    /\ RGe(policy.slippage_cap_bps, Zero)
    /\ policy.exit_slippage_cap_bps # None => RGe(policy.exit_slippage_cap_bps, Zero)
    /\ policy.max_per_event_pct # None => Between01(policy.max_per_event_pct)
    /\ policy.max_per_month_pct # None => Between01(policy.max_per_month_pct)

(* TRUE when validate_config returns, FALSE when it raises ValueError *)
validate_config(cfg) ==
    /\ Between01(cfg.global_policy.cash_reserve_pct)
    /\ Between01(cfg.global_policy.max_parent_allocation_pct)
    /\ Between01(cfg.global_policy.max_month_allocation_pct)
    /\ RGe(cfg.global_policy.slippage_cap_bps, Zero)
    /\ RGe(cfg.global_policy.exit_slippage_cap_bps, Zero)
    /\ \A id \in DOMAIN cfg.market_policies : validate_policy(cfg.market_policies[id])

(* Files the user can leave behind after editing the YAML (open_config_file). *)
Field(name, present, value) == IF present THEN name :> value ELSE EmptyDict

RawPolicies ==
    {Field("auto_buy", TRUE, TRUE) @@ Field("min_price", lo # None, lo)
        @@ Field("max_price", hi # None, hi) @@ Field("min_days", first # None, first)
        @@ Field("max_days", last # None, last) :
        lo \in {None, Rat(1, 5), Rat(19, 20)}, hi \in {None, Rat(1, 10), Rat(3, 5)},
        first \in {None, R(200)}, last \in {None, Rat(1, 2)}}

RawConfigs ==
    {Field("schema_version", version # "", version) @@ Field("markets", TRUE, "m1" :> policy_raw) :
        version \in {"", "1", "2"}, policy_raw \in RawPolicies}

InitConfig == Idle /\ input \in RawConfigs

(* reload_config: the engine is rebuilt from whatever load_config returns *)
ReloadConfig ==
    /\ \E r \in {load_config(input)} :
          /\ config' = IF r.raised THEN config ELSE r.config
          /\ call' = [op |-> "reload_config", raised |-> r.raised]
    /\ UNCHANGED <<now, total_budget, cash_balance, markets, market_order, strategy_priority,
                   trade_log, active_freezes, last_decision, cycles, changes, input>>

NextConfig ==
    \/ ReloadConfig
    \/ AddMarket("m1", QuoteFair)
    \/ Evaluate

SpecConfig == InitConfig /\ [][NextConfig]_vars

(* run_allocation: execute, then the reconciliation of refresh_views *)

ensure_cash(rs) ==
    Bind(total_invested(rs), LAMBDA invested :
    Bind(IF RLe(rs.total_budget, Zero) THEN RAdd(invested, rs.cash_balance) ELSE rs.total_budget,
         LAMBDA budget :
    [rs EXCEPT !.total_budget = budget,
               !.cash_balance = IF RLe(rs.cash_balance, Zero) /\ RGt(budget, invested)
                                THEN RSub(budget, invested) ELSE @]))

run_allocation(rs, cfg, now_) ==
    Bind(execute(rs, cfg, now_), LAMBDA r :
    IF r.raised THEN r
    ELSE [r EXCEPT !.state =
             ensure_cash([r.state EXCEPT !.cash_balance = RMax(@, Zero)])])

(* the bid has risen above the price QuoteFair was bought at *)
QuoteUp == Quote(Rat(3, 5), <<Level(3, 5, 20)>>, Rat(11, 20), <<Level(11, 20, 20)>>, 9)
(* the best bid level is thin; the next one is half a percent lower *)
QuoteThin ==
    Quote(Rat(1, 2), <<Level(1, 2, 20)>>, Rat(2, 5), <<Level(2, 5, 4), Level(199, 500, 20)>>, 9)

RotationQuotes(k) ==
    IF k = "m1" THEN {QuoteFair, QuoteUp, QuoteThin} ELSE {QuoteSoon, QuoteNoAsk}

RotationConfig ==
    [global_policy |-> RotationGlobal, market_policies |-> [k \in Keys |-> TradingPolicy]]

NewRuntimeState ==
    [total_budget |-> Budget, cash_balance |-> Budget, markets |-> EmptyDict,
     market_order |-> <<>>, strategy_priority |-> <<>>, trade_log |-> <<>>,
     active_freezes |-> EmptyDict, last_decision |-> NoDecision]

(* both markets have been added to a new state; nothing is held yet *)
Tracked(q1, q2) ==
    add_market(add_market(NewRuntimeState,
                          update_from_snapshot(NewMarket("m1", EventOf("m1"), MonthOf("m1")), q1)).state,
               update_from_snapshot(NewMarket("m2", EventOf("m2"), MonthOf("m2")), q2)).state

InitRotate ==
    /\ now = 0
    /\ config = RotationConfig
    /\ \E q1 \in RotationQuotes("m1"), q2 \in RotationQuotes("m2") :
           \E rs \in {Tracked(q1, q2)} :
               /\ total_budget = rs.total_budget
               /\ cash_balance = rs.cash_balance
               /\ markets = rs.markets
               /\ market_order = rs.market_order
               /\ strategy_priority = rs.strategy_priority
               /\ trade_log = rs.trade_log
               /\ active_freezes = rs.active_freezes
               /\ last_decision = rs.last_decision
    /\ call = NoCall
    /\ cycles = 0
    /\ changes = 0
    /\ input = <<>>

RunAllocation ==
    /\ cycles < MaxCycles
    /\ cycles' = cycles + 1
    /\ \E r \in {run_allocation(RS, config, now)} :
        /\ Becomes(r.state)
        /\ call' = [op |-> "run_allocation", raised |-> r.raised, decision |-> r.decision]
    /\ UNCHANGED <<now, config, changes, input>>

NextRotate ==
    \/ \E k \in Keys : \E q \in RotationQuotes(k) : Refresh(k, q)
    \/ RunAllocation

SpecRotate == InitRotate /\ [][NextRotate]_vars

(* compute_g in floating point.  A float is a rational m * 2^e whose        *)
(* mantissa m has MantissaBits bits; every operation of the expression      *)
(* returns the float nearest to its exact result (ties to the even m), as    *)
(* IEEE arithmetic does with 53 bits.                                        *)

MantissaBits == 3

(* the power of two u with 2^(MantissaBits-1) <= x/u < 2^MantissaBits, x > 0 *)
RECURSIVE Ulp(_, _)
Ulp(x, u) ==
    IF RGe(x, RMul(R(2 ^ MantissaBits), u)) THEN Ulp(x, RMul(R(2), u))
    ELSE IF RLt(x, RMul(R(2 ^ (MantissaBits - 1)), u)) THEN Ulp(x, RDiv(u, R(2)))
    ELSE u

(* nearest integer to q >= 0, ties to even *)
RoundInt(q) ==
    LET whole == q[1] \div q[2]
        rest == q[1] - whole * q[2]
    IN  IF 2 * rest < q[2] THEN whole
        ELSE IF 2 * rest > q[2] THEN whole + 1
        ELSE IF whole % 2 = 0 THEN whole ELSE whole + 1

Fl(x) ==
    IF x = Zero THEN Zero
    ELSE IF RLt(x, Zero) THEN RNeg(Bind(Ulp(RNeg(x), One), LAMBDA u :
                                            RMul(R(RoundInt(RDiv(RNeg(x), u))), u)))
    ELSE Bind(Ulp(x, One), LAMBDA u : RMul(R(RoundInt(RDiv(x, u))), u))

(* the odds term taken upside down *)
MutOddsFloat(price) == Fl(RDiv(price, Fl(RSub(One, price))))

(* (1.0 - price) / price *)
OddsFloat(price) == Fl(RDiv(Fl(RSub(One, price)), price))

compute_g_float(price, resolution_days, lambda_days) ==
    IF price = None \/ RLe(price, Zero) \/ RLe(Fl(RAdd(resolution_days, lambda_days)), Zero)
    THEN None
    ELSE Bind(Fl(RMul(Fl(PayoutFactor), OddsFloat(price))), LAMBDA r :
         Fl(RDiv(Fl(ln1p(r)), Fl(RAdd(resolution_days, lambda_days)))))

(* the floats of (0,1) in the three binades below 1 *)
FloatPrices ==
    {Rat(m, 2 ^ (MantissaBits + e)) :
        m \in 2 ^ (MantissaBits - 1) .. 2 ^ MantissaBits - 1, e \in 0..2}
FloatDays == {Zero, One, R(4), R(6)}
FloatLambdas == {Rat(1, 2), One}

InitMonotone ==
    /\ Idle
    /\ input \in {pair \in [p1 : FloatPrices, p2 : FloatPrices, resolution_days : FloatDays,
                            lambda_days : FloatLambdas] : RLt(pair.p1, pair.p2)}

ComputeGPair ==
    /\ call = NoCall
    /\ call' = [op |-> "compute_g", raised |-> FALSE,
                g1 |-> compute_g_float(input.p1, input.resolution_days, input.lambda_days),
                g2 |-> compute_g_float(input.p2, input.resolution_days, input.lambda_days)]
    /\ UNCHANGED <<now, config, total_budget, cash_balance, markets, market_order,
                   strategy_priority, trade_log, active_freezes, last_decision, cycles,
                   changes, input>>

SpecMonotone == InitMonotone /\ [][ComputeGPair]_vars

(* evaluate over a tracked list *)

(* the ask has reached the payout: price 1 *)
QuoteAtPar == Quote(One, <<Level(1, 1, 20)>>, Rat(9, 10), <<Level(9, 10, 20)>>, 9)
QuoteCheap == Quote(Rat(1, 100), <<Level(1, 100, 20)>>, None, <<>>, 9)

EvaluationKeys == <<"m1", "m2", "m3">>
EvaluationQuotes == {QuoteFair, QuoteSoon, QuoteNoAsk, QuoteNoBook, QuoteAtPar, QuoteCheap}
EvaluationPolicies ==
    {TradingPolicy,
     [TradingPolicy EXCEPT !.enabled = FALSE],
     [TradingPolicy EXCEPT !.min_g = Rat(1, 10)],
     [TradingPolicy EXCEPT !.max_days = R(5)]}

RECURSIVE TrackAll(_, _, _)
TrackAll(keys, quotes, n) ==
    IF n = 0 THEN NewRuntimeState
    ELSE add_market(TrackAll(keys, quotes, n - 1),
                    update_from_snapshot(NewMarket(keys[n], EventOf(keys[n]), MonthOf(keys[n])),
                                         quotes[n])).state

InitEvaluate ==
    /\ now = 0
    /\ \E policy \in EvaluationPolicies :
           config = [global_policy |-> GlobalPolicy, market_policies |-> ("default" :> policy)]
    /\ \E quotes \in [1..Len(EvaluationKeys) -> EvaluationQuotes] :
           \E rs \in {TrackAll(EvaluationKeys, quotes, Len(EvaluationKeys))} :
               /\ total_budget = rs.total_budget
               /\ cash_balance = rs.cash_balance
               /\ markets = rs.markets
               /\ market_order = rs.market_order
               /\ strategy_priority = rs.strategy_priority
               /\ trade_log = rs.trade_log
               /\ active_freezes = rs.active_freezes
               /\ last_decision = rs.last_decision
    /\ call = NoCall
    /\ cycles = 0
    /\ changes = 0
    /\ input = <<>>

SpecEvaluate == InitEvaluate /\ [][Evaluate]_vars

(* execute under the caps of the market policy *)

(* an ask book whose second level is 2 % dearer / 0.2 % dearer *)
QuoteSteep == Quote(Rat(1, 2), <<Level(1, 2, 2), Level(51, 100, 20)>>, Rat(2, 5), <<Level(2, 5, 20)>>, 9)
QuoteStep == Quote(Rat(1, 2), <<Level(1, 2, 8), Level(501, 1000, 20)>>, Rat(2, 5), <<Level(2, 5, 20)>>, 9)

(* a bid book that drops 5 % after one share *)
QuoteGap == Quote(Rat(1, 2), <<Level(1, 2, 20)>>, Rat(2, 5), <<Level(2, 5, 1), Level(19, 50, 20)>>, 9)

CycleQuotes(k) ==
    IF k = "m1" THEN {QuoteFair, QuoteUp, QuoteThin, QuoteGap, QuoteSteep, QuoteStep}
    ELSE {QuoteSoon, QuoteNoAsk}

CyclePolicies ==
    {TradingPolicy,
     [TradingPolicy EXCEPT !.per_pass_buy_cap = Zero],
     [TradingPolicy EXCEPT !.max_notional = R(3)],
     [TradingPolicy EXCEPT !.max_allocation_pct = Rat(2, 5)],
     [TradingPolicy EXCEPT !.max_per_event_pct = Rat(1, 2), !.max_per_month_pct = Rat(3, 10)],
     [TradingPolicy EXCEPT !.max_per_event_pct = Zero],
     [TradingPolicy EXCEPT !.auto_sell = FALSE]}

StartsAs(rs) ==
    /\ total_budget = rs.total_budget
    /\ cash_balance = rs.cash_balance
    /\ markets = rs.markets
    /\ market_order = rs.market_order
    /\ strategy_priority = rs.strategy_priority
    /\ trade_log = rs.trade_log
    /\ active_freezes = rs.active_freezes
    /\ last_decision = rs.last_decision

InitCycle ==
    /\ now = 0
    /\ \E policy \in CyclePolicies :
           config = [global_policy |-> RotationGlobal,
                     market_policies |-> ("m1" :> policy) @@ ("default" :> TradingPolicy)]
    /\ \E q1 \in CycleQuotes("m1"), q2 \in CycleQuotes("m2") : StartsAs(Tracked(q1, q2))
    /\ call = NoCall
    /\ cycles = 0
    /\ changes = 0
    /\ input = <<>>

NextCycle ==
    \/ \E k \in Keys : \E q \in CycleQuotes(k) : Refresh(k, q)
    \/ Execute

SpecCycle == InitCycle /\ [][NextCycle]_vars

(* execute with two donors and one target *)

(* bid books of 4 shares: one donor cannot fund a whole buy *)
QuoteShallow == Quote(Rat(1, 2), <<Level(1, 2, 20)>>, Rat(2, 5), <<Level(2, 5, 4)>>, 9)
QuoteShallowLate == Quote(Rat(1, 2), <<Level(1, 2, 20)>>, Rat(2, 5), <<Level(2, 5, 4)>>, 19)

DonorKeys == <<"m1", "m2", "m3">>

DonorQuotes(k) ==
    IF k = "m1" THEN {QuoteShallow, QuoteShallowLate}
    ELSE IF k = "m2" THEN {QuoteShallow}
    ELSE {QuoteSoon, QuoteNoAsk}

DonorPolicy == [TradingPolicy EXCEPT !.per_pass_buy_cap = R(4)]

DonorConfigs ==
    { [global_policy |-> RotationGlobal,
       market_policies |-> ("m1" :> p1) @@ ("m2" :> p2) @@ ("default" :> DonorPolicy)] :
        p1 \in {DonorPolicy, [DonorPolicy EXCEPT !.auto_sell = FALSE]},
        p2 \in {DonorPolicy, [DonorPolicy EXCEPT !.priority = 5]} }

InitDonors ==
    /\ now = 0
    /\ config \in DonorConfigs
    /\ \E q1 \in DonorQuotes("m1"), q3 \in DonorQuotes("m3") :
           StartsAs(TrackAll(DonorKeys, <<q1, QuoteShallow, q3>>, Len(DonorKeys)))
    /\ call = NoCall
    /\ cycles = 0
    /\ changes = 0
    /\ input = <<>>

NextDonors ==
    \/ \E n \in DOMAIN DonorKeys : \E q \in DonorQuotes(DonorKeys[n]) : Refresh(DonorKeys[n], q)
    \/ Execute

SpecDonors == InitDonors /\ [][NextDonors]_vars

(* Quote refresh with the circuit breakers (polymarket_optimizer.py).      *)
(* Time is counted in minutes; input holds MarketState.price_history of     *)
(* the one tracked market, each sample [timestamp, best_ask, volume].       *)

MaxSamples == 3
MaxBreakerTime == 20
BreakerStep == 10
HourMinutes == 60
HistoryCap == 240

CircuitBreakerConfig ==
    [drop_pct |-> R(20),
     drop_window_minutes |-> 15,
     recovery_wait_hours |-> 3,
     volume_spike_multiplier |-> R(3)]

BreakerPolicy ==
    [drop_freeze_pct |-> R(20),
     drop_window_min |-> 15,
     recovery_wait_hours |-> 3,
     auto_buy_drop_freeze |-> TRUE] @@ TradingPolicy

BreakerPolicies ==
    {BreakerPolicy,
     [BreakerPolicy EXCEPT !.auto_buy_drop_freeze = FALSE],
     [BreakerPolicy EXCEPT !.whitelist_autobuy = TRUE]}

BreakerAsks == {None, Rat(4, 5), Rat(1, 2)}
BreakerVolumes == {R(1), R(3)}

BreakerQuote(ask) ==
    Quote(ask, IF ask = None THEN <<>> ELSE <<<<ask, R(20)>>>>, Rat(2, 5), <<Level(2, 5, 20)>>, 9)

(* price_history.append(...) and the cut to the last 240 samples *)
append_sample(price_history, sample) ==
    LET grown == Append(price_history, sample)
    IN  IF Len(grown) > HistoryCap
        THEN SubSeq(grown, Len(grown) - HistoryCap + 1, Len(grown))
        ELSE grown

(* The freeze the breakers raise after a refresh, NoFreeze when none. The  *)
(* market's best_ask and last_volume are those of the newest sample. The    *)
(* until string is isoformat() of an aware datetime with "Z" appended,     *)
(* which _parse_iso does not accept: parses is FALSE.                       *)
_evaluate_circuit_breakers(market, price_history, policy, global_policy, now_) ==
    LET cb == global_policy.circuit_breakers
        window_minutes ==
            IF policy.drop_window_min # 0 THEN policy.drop_window_min ELSE cb.drop_window_minutes
        drop_pct == OrElse(policy.drop_freeze_pct, cb.drop_pct)
        hours ==
            IF policy.recovery_wait_hours # 0 THEN policy.recovery_wait_hours
            ELSE cb.recovery_wait_hours
        until == now_ + hours * HourMinutes
        samples == SelectSeq(price_history, LAMBDA s : s.timestamp >= now_ - window_minutes)
        n == Len(price_history)
        volume == OrElse(price_history[n].volume, Zero)
        previous_volume == OrElse(price_history[n - 1].volume, Zero)
    IN  IF /\ policy.auto_buy_drop_freeze
           /\ ~policy.whitelist_autobuy
           /\ Truthy(market.best_ask)
           /\ samples # <<>>
           /\ Truthy(samples[1].best_ask)
           /\ RGt(samples[1].best_ask, Zero)
           /\ RGe(RMul(RDiv(RSub(samples[1].best_ask, market.best_ask), samples[1].best_ask),
                       R(100)), drop_pct)
        THEN [reason |-> "price_drop", until |-> until, parses |-> FALSE]
        ELSE IF /\ Truthy(volume)
                /\ n >= 2
                /\ RGt(previous_volume, Zero)
                /\ RGe(RDiv(volume, previous_volume), cb.volume_spike_multiplier)
        THEN [reason |-> "volume_spike", until |-> until, parses |-> FALSE]
        ELSE NoFreeze

InitBreaker ==
    /\ now = 0
    /\ \E policy \in BreakerPolicies :
           config = [global_policy |-> [circuit_breakers |-> CircuitBreakerConfig] @@ RotationGlobal,
                     market_policies |-> ("m1" :> policy)]
    /\ \E ask \in BreakerAsks, volume \in BreakerVolumes :
           /\ StartsAs(TrackAll(<<"m1">>, <<BreakerQuote(ask)>>, 1))
           /\ input = <<[timestamp |-> 0, best_ask |-> ask, volume |-> volume]>>
    /\ call = NoCall
    /\ cycles = 0
    /\ changes = 0

(* _refresh_market_data for one market, trading paused *)
RefreshQuote(k, ask, volume) ==
    /\ k \in DOMAIN markets
    /\ changes < MaxSamples
    /\ changes' = changes + 1
    /\ \E market \in {update_from_snapshot(markets[k], BreakerQuote(ask))} :
       \E history \in {append_sample(input, [timestamp |-> now, best_ask |-> ask,
                                             volume |-> volume])} :
       \E fr \in {_evaluate_circuit_breakers(market, history, get_market_policy(config, k),
                                             config.global_policy, now)} :
           /\ markets' = [markets EXCEPT ![k] = market]
           /\ input' = history
           /\ active_freezes' = IF fr = NoFreeze THEN active_freezes
                                ELSE DictPut(active_freezes, k, fr)
           /\ call' = [op |-> "refresh", raised |-> FALSE, key |-> k, freeze |-> fr]
    /\ UNCHANGED <<now, config, total_budget, cash_balance, market_order, strategy_priority,
                   trade_log, last_decision, cycles>>

Minutes ==
    /\ now < MaxBreakerTime
    /\ now' = now + BreakerStep
    /\ call' = NoCall
    /\ UNCHANGED <<config, total_budget, cash_balance, markets, market_order, strategy_priority,
                   trade_log, active_freezes, last_decision, cycles, changes, input>>

NextBreaker ==
    \/ \E ask \in BreakerAsks, volume \in BreakerVolumes : RefreshQuote("m1", ask, volume)
    \/ Minutes

SpecBreaker == InitBreaker /\ [][NextBreaker]_vars

(* the freezes of the breaker read by get_freeze and by execute *)
NextReadBack ==
    \/ \E ask \in BreakerAsks \ {None}, volume \in BreakerVolumes :
           RefreshQuote("m1", ask, volume)
    \/ GetFreeze("m1")
    \/ Execute

SpecReadBack == InitBreaker /\ [][NextReadBack]_vars

(* MarketState.g_held on one stored position *)

HeldShares == {Zero, One, R(2)}
HeldPrices == {Rat(1, 4), Rat(1, 2), Rat(3, 4)}
HeldDays == {R(-2), R(-1), Zero, One, R(4)}
HeldLambdas == {Rat(1, 2), One, R(2)}

(* a market as _market_from_dict restores it: resolution_days is whatever   *)
(* the file holds (0.0 when absent); no shares means no average price       *)
HeldMarket(in) ==
    [NewMarket("m1", EventOf("m1"), MonthOf("m1")) EXCEPT
        !.held_shares = in.held_shares,
        !.average_price = in.average_price,
        !.resolution_days = in.resolution_days]

InitHeld ==
    /\ Idle
    /\ input \in [held_shares : HeldShares, average_price : HeldPrices \cup {None},
                  resolution_days : HeldDays, lambda_days : HeldLambdas]
    /\ (input.held_shares = Zero) <=> (input.average_price = None)

GHeld == Returns("g_held", g_held(HeldMarket(input), input.lambda_days))

SpecHeld == InitHeld /\ [][GHeld]_vars

(* rotation cycles with freezes written between them *)
NextLedger ==
    \/ \E k \in Keys : \E q \in RotationQuotes(k) : Refresh(k, q)
    \/ \E k \in Keys, parses \in BOOLEAN : SetFreeze(k, parses)
    \/ Execute

SpecLedger == InitRotate /\ [][NextLedger]_vars

(* One rotation sell in the arithmetic of the engine: _simulate_sell,      *)
(* compute_fill_from_bids and MarketState.sell with every operation        *)
(* rounded to MantissaBits bits.                                           *)

RECURSIVE BidWalkFloat(_, _, _)
BidWalkFloat(bids, i, acc) ==
    IF i > Len(bids) \/ acc.done THEN acc
    ELSE LET price == bids[i][1]
             size == bids[i][2]
         IN  IF RLe(price, Zero) \/ RLe(size, Zero)
             THEN BidWalkFloat(bids, i + 1, acc)
             ELSE Bind(RMin(size, acc.remaining), LAMBDA sell_shares :
                  Bind(Fl(RSub(acc.remaining, sell_shares)), LAMBDA remaining :
                  BidWalkFloat(bids, i + 1,
                      [proceeds |-> Fl(RAdd(acc.proceeds, Fl(RMul(price, sell_shares)))),
                       shares |-> Fl(RAdd(acc.shares, sell_shares)),
                       remaining |-> remaining,
                       done |-> RLe(remaining, EpsShares)])))

(* the sale that funds everything whatever is needed *)
Mutsimulate_sell_float(bids, needed_cash, held_shares, exit_cap) ==
    Bind(BidWalkFloat(bids, 1, [proceeds |-> Zero, shares |-> Zero,
                                remaining |-> held_shares, done |-> FALSE]), LAMBDA w :
    IF RLe(w.shares, Zero) THEN [shares |-> Zero, proceeds |-> Zero]
    ELSE Bind(Fl(RDiv(w.proceeds, w.shares)), LAMBDA avg_price :
         [shares |-> w.shares, proceeds |-> Fl(RMul(RMin(w.shares, held_shares), avg_price))]))

(* returns the shares of the sell record and the proceeds MarketState.sell *)
(* adds to cash; bids[1][1] > 0                                            *)
simulate_sell_float(bids, needed_cash, held_shares, exit_cap) ==
    IF bids = <<>> \/ RLe(needed_cash, Zero) THEN [shares |-> Zero, proceeds |-> Zero]
    ELSE Bind(RMin(held_shares, Fl(RDiv(needed_cash, bids[1][1]))), LAMBDA target_shares :
         IF RLe(target_shares, Zero) THEN [shares |-> Zero, proceeds |-> Zero]
         ELSE Bind(BidWalkFloat(bids, 1, [proceeds |-> Zero, shares |-> Zero,
                                          remaining |-> target_shares, done |-> FALSE]),
                   LAMBDA w :
         IF RLe(w.shares, Zero) THEN [shares |-> Zero, proceeds |-> Zero]
         ELSE Bind(Fl(RDiv(w.proceeds, w.shares)), LAMBDA avg_price :
              Bind(Fl(RMul(Fl(RDiv(Fl(RSub(bids[1][1], avg_price)), bids[1][1])), BpsScale)),
                   LAMBDA slippage_bps :
              IF RGt(slippage_bps, exit_cap) THEN [shares |-> Zero, proceeds |-> Zero]
              ELSE [shares |-> w.shares,
                    proceeds |-> Fl(RMul(RMin(w.shares, held_shares), avg_price))]))))

(* the floats of three binades from 1 *)
FloatAmounts ==
    {Rat(m * 2 ^ e, 2 ^ (MantissaBits - 1)) :
        m \in 2 ^ (MantissaBits - 1) .. 2 ^ MantissaBits - 1, e \in 0..2}
FloatHeld == {R(3), R(12)}
FloatSizes == {One, R(16)}

(* a book of two levels, the second at half the price of the first *)
FloatBook(price, size) == <<<<price, size>>, <<RDiv(price, R(2)), R(16)>>>>

InitProceeds ==
    /\ Idle
    /\ input \in [needed_cash : FloatAmounts, price : FloatPrices, size : FloatSizes,
                  held_shares : FloatHeld]

SimulateSell ==
    /\ call = NoCall
    /\ call' = [op |-> "simulate_sell", raised |-> FALSE,
                fill |-> simulate_sell_float(FloatBook(input.price, input.size),
                                             input.needed_cash, input.held_shares, R(10000))]
    /\ UNCHANGED <<now, config, total_budget, cash_balance, markets, market_order,
                   strategy_priority, trade_log, active_freezes, last_decision, cycles,
                   changes, input>>

SpecProceeds == InitProceeds /\ [][SimulateSell]_vars

-----------------------------------------------------------------------------
(* Properties *)

CashReserveValue == RMul(total_budget, config.global_policy.cash_reserve_pct)

RecordsFor(records, key) == {i \in DOMAIN records : records[i].market_key = key}

(* C1: every execute() cycle ends with cash_balance at least                *)
(* min(cash at cycle start, total_budget * cash_reserve_pct) - 1e-6.        *)
C1_CashFloorOneTolerance ==
    [][call'.op = "execute" =>
          RGe(cash_balance', RSub(RMin(cash_balance, CashReserveValue'), EpsCash))]_vars

Frozen(key) ==
    /\ key \in DOMAIN active_freezes
    /\ now < active_freezes[key].until
    /\ ~get_market_policy(config, key).whitelist_autobuy

(* C3: a cycle produces no buy record and no BUY trade-log entry for a      *)
(* market that enters it with an unexpired freeze and no whitelist flag,    *)
(* and does not add to its held shares.                                     *)
C3_FrozenNotBought ==
    [][call'.op = "execute" =>
          \A key \in DOMAIN markets :
              Frozen(key) =>
                  /\ RecordsFor(call'.decision.buys, key) = {}
                  /\ \A i \in (Len(trade_log) + 1)..Len(trade_log') :
                         ~(trade_log'[i].action = "BUY" /\ trade_log'[i].market_key = key)
                  /\ RLe(markets'[key].held_shares, markets[key].held_shares)]_vars

(* A cycle that rejected an eligible candidate because of its freeze. *)
C3_Witness ==
    /\ call.op = "execute"
    /\ \E i \in DOMAIN call.decision.rejections :
           call.decision.rejections[i].reasons = <<"freeze:price_drop">>

RECURSIVE TakenCost(_, _, _)
TakenCost(asks, takes, i) ==
    IF i = 0 THEN Zero ELSE RAdd(TakenCost(asks, takes, i - 1), RMul(asks[i][1], takes[i]))

GDenominator == RAdd(input.resolution_days, input.lambda_days)

(* C6: compute_g is undefined exactly when price <= 0, price >= 1 or        *)
(* resolution_days + lambda <= 0.                                           *)
C6_UndefinedOutsideUnitInterval ==
    (call.op = "compute_g" /\ input.price # None) =>
        ((call.result = None) <=>
            (RLe(input.price, Zero) \/ RGe(input.price, One) \/ RLe(GDenominator, Zero)))

(* C7, as stated: when a cycle returns, every eligible candidate of its     *)
(* opportunity list has exactly one record: a buy record, or a rejection    *)
(* record with at least one reason code.                                    *)
C7_OneRecordPerCandidate ==
    (call.op = "execute" /\ ~call.raised) =>
        \A i \in DOMAIN call.decision.opportunities :
            LET opp == call.decision.opportunities[i]
                rejected == RecordsFor(call.decision.rejections, opp.market_key)
            IN  opp.status = "eligible" =>
                    /\ Cardinality(RecordsFor(call.decision.buys, opp.market_key))
                           + Cardinality(rejected) = 1
                    /\ \A j \in rejected : call.decision.rejections[j].reasons # <<>>

(* C8, as stated: evaluate() and execute() return without raising. *)
C8_NeverRaises == call.op \in {"evaluate", "execute"} => ~call.raised

PositionInvariant(m) ==
    /\ RGe(m.held_shares, Zero)
    /\ (m.held_shares = Zero) <=> (m.average_price = None)

(* C10: after every buy and sell the position has held_shares >= 0, and     *)
(* average_price undefined exactly when held_shares is 0; a sell leaves     *)
(* average_price as it was while shares remain.                             *)
C10_PositionInvariant ==
    [][/\ PositionInvariant(markets'["m1"])
       /\ (call'.op = "sell" /\ RGt(markets'["m1"].held_shares, Zero)) =>
              markets'["m1"].average_price = markets["m1"].average_price]_vars

(* A sell closed a position that had been bought. *)
C10_Witness ==
    /\ call.op = "sell"
    /\ RGt(call.shares, Zero)
    /\ call.proceeds # Zero
    /\ markets["m1"].held_shares = Zero
    /\ markets["m1"].average_price = None

(* C11: get_freeze(key) returns without raising; it returns the stored      *)
(* freeze exactly when the table holds one for the key with now < until,    *)
(* and a stored freeze that has expired is removed from the table by the    *)
(* read.                                                                    *)
C11_FreezeReadUntilExpiry ==
    [][call'.op = "get_freeze" =>
          LET key == call'.key
              held == key \in DOMAIN active_freezes
              live == held /\ now < active_freezes[key].until
          IN  /\ ~call'.raised
              /\ (call'.freeze # NoFreeze) <=> live
              /\ live => call'.freeze = active_freezes[key]
              /\ (held /\ ~live) => key \notin DOMAIN active_freezes'
              /\ live => active_freezes' = active_freezes]_vars

(* C12: a loaded document whose schema_version differs from RUNTIME_SCHEMA_VERSION is rejected with an error or comes back with the current version; the foreign version is never kept. *)
C12_ForeignVersionRejectedOrMigrated ==
    (/\ call.op = "load"
     /\ "schema_version" \in DOMAIN input
     /\ input.schema_version # RUNTIME_SCHEMA_VERSION)
        => (call.raised \/ call.schema_version = RUNTIME_SCHEMA_VERSION)

(* C13: the configuration the engine holds never has a market policy that validate_config rejects (min_price > max_price, max_days < min_days, ...): such a file is refused when it is loaded. *)
C13_MalformedPolicyNeverReachesEngine ==
    \A id \in DOMAIN config.market_policies : validate_policy(config.market_policies[id])

(* C14: from a fresh state, after quote refreshes and execute() cycles each followed by ensure_cash(), cash_balance plus the invested amount of all markets is at most total_budget. *)
C14_CashPlusInvestedWithinBudget ==
    RLe(RAdd(cash_balance, total_invested(RS)), total_budget)

ExpectedReasons(market, policy, global_policy) ==
    LET g == compute_g(market.best_ask, market.resolution_days,
                       global_policy.settlement_lambda_days)
    IN  CASE ~policy.enabled -> <<"disabled">>
          [] market.best_ask = None -> <<"missing_best_ask">>
          [] RLt(market.best_ask, policy.min_price) \/ RGt(market.best_ask, policy.max_price)
                -> <<"price_bounds">>
          [] RLt(market.resolution_days, policy.min_days)
                \/ RGt(market.resolution_days, policy.max_days) -> <<"day_bounds">>
          [] g = None -> <<"min_g">>
          [] RLt(g, RMax(policy.min_g, global_policy.min_g)) -> <<"min_g">>
          [] OTHER -> <<>>

(* C16: in what evaluate() returns, every tracked market has one entry; the entry is blocked exactly when one of the five conditions holds, a blocked entry carries the one reason that applies first and has one rejection record, an eligible entry carries no reason and has no rejection. *)
C16_BlockedIffOneReason ==
    (call.op = "evaluate" /\ ~call.raised) =>
        /\ Len(call.opportunities) = Len(market_order)
        /\ \A k \in DOMAIN markets :
              LET expected == ExpectedReasons(markets[k], get_market_policy(config, k),
                                              config.global_policy)
                  entries == {i \in 1..Len(call.opportunities) :
                                 call.opportunities[i].market_key = k}
                  rejected == {i \in 1..Len(call.rejections) :
                                  call.rejections[i].market_key = k}
              IN  /\ Cardinality(entries) = 1
                  /\ \A i \in entries :
                        /\ call.opportunities[i].status \in {"eligible", "blocked"}
                        /\ (call.opportunities[i].status = "blocked") <=> (expected # <<>>)
                        /\ call.opportunities[i].reasons = expected
                  /\ Cardinality(rejected) = IF expected # <<>> THEN 1 ELSE 0
                  /\ \A i \in rejected : call.rejections[i].reasons = expected

(* an evaluation that returns an eligible entry and blocked entries with two different reasons *)
C16_Witness ==
    /\ call.op = "evaluate"
    /\ ~call.raised
    /\ \E i \in 1..Len(call.opportunities) : call.opportunities[i].status = "eligible"
    /\ Cardinality({call.rejections[i].reasons : i \in 1..Len(call.rejections)}) >= 2

(* C17: in the list evaluate() returns, every eligible entry precedes every blocked entry; within each group g is non-increasing and entries with undefined g come after all entries with defined g; the eligible entries carry ranks 1..k in list order and blocked entries carry no rank. *)
C17_SortedAndRanked ==
    (call.op = "evaluate" /\ ~call.raised) =>
        LET opps == call.opportunities
            eligible(i) == opps[i].status = "eligible"
        IN  /\ \A i, j \in 1..Len(opps) :
                  i < j =>
                      /\ ~(~eligible(i) /\ eligible(j))
                      /\ eligible(i) = eligible(j) =>
                            /\ (opps[i].g # None /\ opps[j].g # None) => RGe(opps[i].g, opps[j].g)
                            /\ ~(opps[i].g = None /\ opps[j].g # None)
            /\ \A i \in 1..Len(opps) :
                  opps[i].rank = IF eligible(i)
                                 THEN Cardinality({j \in 1..i : eligible(j)})
                                 ELSE NoRank

(* held g of market key when the candidate of the given rank is processed: the shares it entered the cycle with, less what rotation sold of it for candidates of higher rank *)
HeldGAtTurn(key, rank, decision) ==
    LET sold == {i \in RecordsFor(decision.sells, key) : decision.sells[i].rank < rank}
        soldout == \E i \in sold : RLe(decision.sells[i].remaining_shares, Zero)
    IN  IF soldout THEN None
        ELSE g_held(markets[key], config.global_policy.settlement_lambda_days)

(* C18: in every execute() cycle a candidate whose g is below max(global min_g, market min_g, held g of its own market + delta_threshold), with 0 for a market without a position, gets no buy, no rotation sell is made for it, and when the cycle returns it has a delta_threshold rejection; so every buy is of a candidate at or above that value. *)
C18_RotationGate ==
    [][call'.op = "execute" =>
          LET decision == call'.decision
          IN  \A i \in DOMAIN decision.opportunities :
                  LET opp == decision.opportunities[i]
                      key == opp.market_key
                      held == HeldGAtTurn(key, opp.rank, decision)
                      required ==
                          RMax(config.global_policy.min_g,
                               RMax(get_market_policy(config, key).min_g,
                                    RAdd(IF held = None THEN Zero ELSE held,
                                         config.global_policy.delta_threshold)))
                  IN  (opp.status = "eligible" /\ opp.g # None /\ RLt(opp.g, required)) =>
                          /\ RecordsFor(decision.buys, key) = {}
                          /\ \A j \in DOMAIN decision.sells : decision.sells[j].target_key # key
                          /\ RLe(markets'[key].held_shares, markets[key].held_shares)
                          /\ ~call'.raised =>
                                 \E j \in RecordsFor(decision.rejections, key) :
                                     decision.rejections[j].reasons = <<"delta_threshold">>]_vars

(* a cycle that rejected the top-up of a held market with delta_threshold: the candidate's g is above both min_g values and below held g + delta_threshold *)
C18_Witness ==
    /\ call.op = "execute"
    /\ ~call.raised
    /\ \E j \in DOMAIN call.decision.rejections :
           LET r == call.decision.rejections[j]
           IN  /\ r.reasons = <<"delta_threshold">>
               /\ r.market_key \in DOMAIN markets
               /\ RGt(markets[r.market_key].held_shares, Zero)
               /\ RGe(r.g, RMax(config.global_policy.min_g,
                                get_market_policy(config, r.market_key).min_g))

(* records of the cycle, after the candidate of the given rank, that change the position in market key *)
TouchedLater(decision, key, rank) ==
    \/ \E i \in RecordsFor(decision.buys, key) : decision.buys[i].rank > rank
    \/ \E i \in RecordsFor(decision.sells, key) : decision.sells[i].rank > rank

(* C19: when a cycle skips a buy with insufficient_cash, no eligible donor (auto-sell enabled, not the target, held g at most candidate g - delta_threshold) is left holding shares while the best level of its bid book has size to sell into. *)
C19_InsufficientCashOnlyWhenExhausted ==
    (call.op = "run_allocation" /\ ~call.raised) =>
        \A j \in DOMAIN call.decision.rejections :
            LET skipped == call.decision.rejections[j]
            IN  skipped.reasons = <<"insufficient_cash">> =>
                    \A donor \in DOMAIN markets \ {skipped.market_key} :
                        LET held == markets[donor]
                            held_g == g_held(held, config.global_policy.settlement_lambda_days)
                        IN  ~(/\ get_market_policy(config, donor).auto_sell
                              /\ ~TouchedLater(call.decision, donor, skipped.rank)
                              /\ RGt(held.held_shares, Zero)
                              /\ held_g # None
                              /\ RLe(held_g, RSub(skipped.g, config.global_policy.delta_threshold))
                              /\ held.bids # <<>>
                              /\ RGt(held.bids[1][1], Zero)
                              /\ RGt(held.bids[1][2], Zero))

(* C20: every rotation sell of a cycle has a buy record for its target market in the same cycle's result. *)
C20_EverySellFundsABuy ==
    call.op = "run_allocation" =>
        \A i \in DOMAIN call.decision.sells :
            RecordsFor(call.decision.buys, call.decision.sells[i].target_key) # {}

(* C21 as stated: the cost of every buy record of a cycle is at most the market's per_pass_buy_cap, also when the cap is 0. *)
C21_CostWithinPerPassCap ==
    call.op = "execute" =>
        \A i \in DOMAIN call.decision.buys :
            RLe(call.decision.buys[i].cost,
                get_market_policy(config, call.decision.buys[i].market_key).per_pass_buy_cap)

(* C21, amended: the cost of every buy record of a cycle is at most the market's per_pass_buy_cap when that cap is positive; a cap of 0 switches the per-cycle cap off. *)
C21_CostWithinPositiveCap ==
    call.op = "execute" =>
        \A i \in DOMAIN call.decision.buys :
            LET cap == get_market_policy(config, call.decision.buys[i].market_key).per_pass_buy_cap
            IN  RGt(cap, Zero) => RLe(call.decision.buys[i].cost, cap)

(* a buy that the per-cycle cap cut to exactly the cap *)
C21_Witness ==
    /\ call.op = "execute"
    /\ \E i \in DOMAIN call.decision.buys :
           LET cap == get_market_policy(config, call.decision.buys[i].market_key).per_pass_buy_cap
           IN  RGt(cap, Zero) /\ call.decision.buys[i].cost = cap

(* the cap in effect for a market: its own value when one is set, else the global one *)
EffectiveCap(own, global) == IF own # None THEN own ELSE global

(* exposure ledger of a group of markets after the buy of the given rank: market value at cycle start, plus buy costs, minus rotation-sell proceeds *)
LedgerAfter(decision, rank, member(_)) ==
    RSub(RAdd(SumSeq([i \in 1..Len(market_order) |->
                  IF member(market_order[i]) THEN market_value(markets[market_order[i]]) ELSE Zero]),
              SumSeq([i \in 1..Len(decision.buys) |->
                  IF decision.buys[i].rank <= rank /\ member(decision.buys[i].market_key)
                  THEN decision.buys[i].cost ELSE Zero])),
         SumSeq([i \in 1..Len(decision.sells) |->
             IF decision.sells[i].rank <= rank /\ member(decision.sells[i].market_key)
             THEN decision.sells[i].value ELSE Zero]))

BuyWithinHeadroom(decision, b) ==
    LET policy == get_market_policy(config, b.market_key)
        gp == config.global_policy
        m == markets[b.market_key]
        SameEvent(k) == markets[k].parent_event_id = m.parent_event_id
        SameMonth(k) == markets[k].month = m.month
    IN  /\ RLe(RMul(b.new_shares, b.new_avg_price),
               RMin(policy.max_notional,
                    RMul(total_budget, EffectiveCap(policy.max_allocation_pct, One))))
        /\ RLe(LedgerAfter(decision, b.rank, SameEvent),
               RMul(total_budget,
                    EffectiveCap(policy.max_per_event_pct, gp.max_parent_allocation_pct)))
        /\ RLe(LedgerAfter(decision, b.rank, SameMonth),
               RMul(total_budget,
                    EffectiveCap(policy.max_per_month_pct, gp.max_month_allocation_pct)))

NoHeadroom(k) ==
    LET policy == get_market_policy(config, k)
    IN  RGe(invested_amount(markets[k]),
            RMin(policy.max_notional,
                 RMul(total_budget, EffectiveCap(policy.max_allocation_pct, One))))

(* C22: after every buy of a cycle the market's invested amount is within min(max_notional, total_budget * max_allocation_pct) and the exposure ledgers of its parent event and resolution month are within total_budget times the effective event and month caps; a candidate with no headroom is rejected, never bought. *)
C22_BuyWithinHeadroom ==
    [][(call'.op = "execute" /\ ~call'.raised /\ RGt(total_budget, Zero)) =>
          /\ \A i \in DOMAIN call'.decision.buys :
                 BuyWithinHeadroom(call'.decision, call'.decision.buys[i])
          /\ \A k \in DOMAIN markets :
                 NoHeadroom(k) =>
                     /\ \A i \in DOMAIN call'.decision.buys :
                            call'.decision.buys[i].market_key # k
                     /\ \A j \in DOMAIN call'.decision.opportunities :
                            (/\ call'.decision.opportunities[j].market_key = k
                             /\ call'.decision.opportunities[j].status = "eligible") =>
                                \E i \in DOMAIN call'.decision.rejections :
                                    call'.decision.rejections[i].market_key = k]_vars

(* slippage in basis points of an average fill price against the best level of the book, from the side of the taker *)
SlippageAgainst(best, avg, buying) ==
    IF buying THEN RMul(RDiv(RSub(avg, best), best), BpsScale)
    ELSE RMul(RDiv(RSub(best, avg), best), BpsScale)

FillsOf(records, k) ==
    SumSeq([i \in 1..Len(records) |-> IF records[i].market_key = k THEN records[i].shares ELSE Zero])

(* C23: every buy of a cycle filled within the market's effective entry slippage cap and every rotation sell within the donor's effective exit cap (the market's own value, else the global one), the slippage being that of the fill's average price against the best level of the book; a candidate whose fill is above the cap is rejected without a buy, without a funding sell, and its position moves by no more than the recorded fills. *)
C23_FillsWithinSlippageCap ==
    [][(call'.op = "execute" /\ ~call'.raised) =>
          LET gp == config.global_policy
              d == call'.decision
          IN  /\ \A i \in DOMAIN d.buys :
                     LET b == d.buys[i]
                         cap == EffectiveCap(get_market_policy(config, b.market_key).slippage_cap_bps,
                                             gp.slippage_cap_bps)
                     IN  /\ RLe(b.slippage_bps, cap)
                         /\ RLe(SlippageAgainst(markets[b.market_key].asks[1][1],
                                                RDiv(b.cost, b.shares), TRUE), cap)
              /\ \A i \in DOMAIN d.sells :
                     LET s == d.sells[i]
                         cap == EffectiveCap(get_market_policy(config, s.market_key).exit_slippage_cap_bps,
                                             gp.exit_slippage_cap_bps)
                     IN  /\ RLe(s.slippage_bps, cap)
                         /\ RLe(SlippageAgainst(markets[s.market_key].bids[1][1],
                                                RDiv(s.value, s.shares), FALSE), cap)
              /\ \A i \in DOMAIN d.rejections :
                     d.rejections[i].reasons = <<"slippage_cap">> =>
                         LET k == d.rejections[i].market_key
                         IN  /\ \A j \in DOMAIN d.buys : d.buys[j].market_key # k
                             /\ \A j \in DOMAIN d.sells : d.sells[j].target_key # k
                             /\ markets'[k].held_shares =
                                    RSub(markets[k].held_shares, FillsOf(d.sells, k))]_vars

(* a cycle that committed a rotation sell at an average price below the best bid *)
C23_Witness ==
    /\ call.op = "execute"
    /\ \E i \in DOMAIN call.decision.sells : RGt(call.decision.sells[i].slippage_bps, Zero)

(* C24: no rotation sell of a cycle takes shares of a market whose policy has auto_sell off, and none takes shares of the market whose buy it funds; positions bought earlier in the same cycle are no exception. *)
C24_DonorsAutoSellAndNotTarget ==
    call.op = "execute" =>
        \A i \in DOMAIN call.decision.sells :
            /\ get_market_policy(config, call.decision.sells[i].market_key).auto_sell
            /\ call.decision.sells[i].market_key # call.decision.sells[i].target_key

(* a sell that takes shares of a position bought earlier in the same cycle *)
C24_Witness ==
    /\ call.op = "execute"
    /\ \E i \in DOMAIN call.decision.sells, j \in DOMAIN call.decision.buys :
           /\ call.decision.buys[j].market_key = call.decision.sells[i].market_key
           /\ call.decision.buys[j].rank < call.decision.sells[i].rank

(* C25: among the rotation sells that fund one buy, a sell committed earlier has a donor whose held g is not above that of a later one, and of two donors with the same held g the one with the higher priority number is sold first. *)
C25_DonorsWorstFirst ==
    call.op = "execute" =>
        \A i, j \in DOMAIN call.decision.sells :
            (i < j /\ call.decision.sells[i].rank = call.decision.sells[j].rank) =>
                LET a == call.decision.sells[i]
                    b == call.decision.sells[j]
                IN  /\ RLe(a.g_before, b.g_before)
                    /\ a.g_before = b.g_before =>
                           get_market_policy(config, a.market_key).priority
                               >= get_market_policy(config, b.market_key).priority

(* one buy funded by two donors of different held g *)
C25_Witness ==
    /\ call.op = "execute"
    /\ \E i, j \in DOMAIN call.decision.sells :
           /\ i < j
           /\ call.decision.sells[i].rank = call.decision.sells[j].rank
           /\ RLt(call.decision.sells[i].g_before, call.decision.sells[j].g_before)

(* the samples of a price history taken inside the window that carry an ask *)
AskSamplesInWindow(price_history, now_, window_minutes) ==
    SelectSeq(price_history,
              LAMBDA s : s.timestamp >= now_ - window_minutes
                         /\ s.best_ask # None /\ RGt(s.best_ask, Zero))

(* C26: after a refresh of a market whose policy has the drop freeze on and is not whitelisted, the market is frozen with reason price_drop until now plus the recovery wait whenever the drop from the oldest sample with an ask inside the window to the current best ask is at least the threshold, whatever the other samples hold; a market with the check off or whitelisted gets no price_drop freeze. *)
C26_DropFreezeFromOldestAsk ==
    [][call'.op = "refresh" =>
          LET k == call'.key
              policy == get_market_policy(config, k)
              checked == policy.auto_buy_drop_freeze /\ ~policy.whitelist_autobuy
              current == markets'[k].best_ask
              asks == AskSamplesInWindow(input', now, policy.drop_window_min)
          IN  /\ (/\ checked
                  /\ current # None
                  /\ asks # <<>>
                  /\ RGe(RMul(RDiv(RSub(asks[1].best_ask, current), asks[1].best_ask), R(100)),
                         policy.drop_freeze_pct)) =>
                     /\ k \in DOMAIN active_freezes'
                     /\ active_freezes'[k].reason = "price_drop"
                     /\ active_freezes'[k].until = now + policy.recovery_wait_hours * HourMinutes
              /\ ~checked => call'.freeze.reason # "price_drop"]_vars

(* C27: a freeze written by the circuit breaker is returned by get_freeze, without an error, at every time before its expiry, and an execute cycle over a market frozen that way completes and rejects the market with the freeze as reason. *)
C27_BreakerFreezeReadBack ==
    [][\A k \in DOMAIN active_freezes :
          now < active_freezes[k].until =>
              /\ (call'.op = "get_freeze" /\ call'.key = k) =>
                     ~call'.raised /\ call'.freeze = active_freezes[k]
              /\ (call'.op = "execute" /\ ~get_market_policy(config, k).whitelist_autobuy) =>
                     /\ ~call'.raised
                     /\ \A j \in DOMAIN call'.decision.opportunities :
                            (/\ call'.decision.opportunities[j].market_key = k
                             /\ call'.decision.opportunities[j].status = "eligible") =>
                                \E i \in DOMAIN call'.decision.rejections :
                                    /\ call'.decision.rejections[i].market_key = k
                                    /\ call'.decision.rejections[i].reasons =
                                           <<"freeze:" \o active_freezes[k].reason>>]_vars

(* C28: for a market with a position, g_held(lambda) is defined exactly when compute_g(average_price, resolution_days, lambda) is, and then equals it, also for resolution_days <= 0 with resolution_days + lambda > 0; without a position g_held is undefined. *)
C28_HeldScoreIsScoreOfAveragePrice ==
    call.op = "g_held" =>
        call.result = IF RGt(input.held_shares, Zero)
                      THEN compute_g(input.average_price, input.resolution_days,
                                     input.lambda_days)
                      ELSE None

(* cash plus invested amounts minus realized profits *)
AccountingTotal(cash, mkts, order) ==
    RSub(RAdd(cash, SumSeq([i \in 1..Len(order) |-> invested_amount(mkts[order[i]])])),
         SumSeq([i \in 1..Len(order) |-> mkts[order[i]].realized_profit]))

(* C29: every execute cycle leaves cash_balance plus the invested amounts of all markets minus their realized profits unchanged. *)
C29_CycleConservesAccountingTotal ==
    [][call'.op = "execute" =>
          AccountingTotal(cash_balance', markets', market_order')
              = AccountingTotal(cash_balance, markets, market_order)]_vars

ExactSell ==
    LET market == [NewMarket("m1", EventOf("m1"), MonthOf("m1")) EXCEPT
                       !.held_shares = input.held_shares, !.average_price = Rat(1, 2)]
        policy == [TradingPolicy EXCEPT !.exit_slippage_cap_bps = R(10000)]
        fill == _simulate_sell(FloatBook(input.price, input.size), input.needed_cash, market,
                               RotationGlobal, policy)
    IN  [shares |-> fill.shares, proceeds |-> sell(market, fill.shares, fill.avg_price).proceeds]

====
